---- MODULE Spec2Model ----
(***************************************************************************)
(* EnvChanter: synchronisation of a local .env file with a remote secret   *)
(* store (AWS SSM Parameter Store / Azure Key Vault).                      *)
(*                                                                         *)
(* Strings are sequences of characters; a character is a one-character TLA+ *)
(* string.  The local file is its text and its permission bits.  One       *)
(* behaviour is one invocation of the program (main, src/main.go:765-1067) *)
(* after flag parsing and client construction.                             *)
(*                                                                         *)
(*   Spec       sync mode against AWS SSM with a valid mapping and a       *)
(*              readable file, over a wide set of snapshots                *)
(*   MainSpec   every mode (pull, bulk push, single push, sync) against    *)
(*              both stores, invalid mappings and files included           *)
(*   CodecSpec  writeEnvFile and readEnvFile as functions of their inputs  *)
(***************************************************************************)
EXTENDS Integers, Sequences, FiniteSets, TLC

VARIABLES
    paramMap,       \* ParameterMap: env var name -> remote identifier
    store,          \* the remote store: identifier -> adapter outcome
    file,           \* text of the local .env file
    file0,          \* text of the local .env file when the run started
    local0,         \* the snapshot main read from the file, before any merge
    force,          \* --force
    quotes,         \* --quotes
    pc,             \* "start", "fetched", "prompt", "done"
    localEnvVars,   \* syncParameters' localEnvVars map
    ssmEnvVars,     \* syncParameters' ssmEnvVars map (the remote snapshot)
    differences,    \* syncParameters' differences slice
    toUpdate,       \* the update decision set (slice of Difference)
    idx,            \* promptForUpdates' loop index i, 1-based
    response,       \* promptForUpdates' response, after normalization
    out,            \* the messages printed, one record each; the prompt
                    \* dialogue itself is tracked by idx and invalids
    writes,         \* number of writeEnvFile calls performed
    invalids,       \* number of invalid responses read so far
    exitCode,       \* -1 while running, then the process exit code
    mode,           \* "sync", "pull", "push", "pushkey"; "codec" in CodecSpec
    azure,          \* --azure
    single,         \* --key, --value, --ssm-path / --secret-name
    putFails,       \* the identifiers at which a store call fails
    calls,          \* the adapter calls made so far, in order
    fileInfo,       \* whether the .env file exists, and its permission bits
    parsed,         \* CodecSpec: what readEnvFile returned
    pass,           \* the invocations of the program completed before this one
    eof,            \* standard input has reached end-of-input
    filename        \* LoaderSpec: the path given with --map or --env

vars == <<paramMap, store, file, file0, local0, force, quotes, pc, localEnvVars,
          ssmEnvVars, differences, toUpdate, idx, response, out, writes,
          invalids, exitCode, mode, azure, single, putFails, calls, fileInfo,
          parsed, pass, eof, filename>>

\* what no step of main changes
given == <<mode, azure, single, putFails, parsed, pass, eof, filename>>

----------------------------------------------------------------------------
(* Bounds *)

\* invalid responses the terminal may deliver during one run
MaxInvalid == 1

----------------------------------------------------------------------------
(* Characters and strings *)

LF == "\n"
CR == "\r"
TAB == "\t"
SP == " "
DQ == "\""
SQ == "'"
BS == "\\"
EQ == "="
HASH == "#"
\* form feed: white space to unicode.IsSpace, not listed by needsQuoting
FF == "\f"
\* the null byte, written by its name
NUL == "NUL"

\* the byte value of a character, as sort.Strings and < on strings compare it
ByteOf(c) ==
    CASE c = NUL -> 0
      [] c = TAB -> 9
      [] c = LF -> 10
      [] c = FF -> 12
      [] c = "!" -> 33
      [] c = CR -> 13
      [] c = SP -> 32
      [] c = DQ -> 34
      [] c = HASH -> 35
      [] c = SQ -> 39
      [] c = "-" -> 45
      [] c = "." -> 46
      [] c = "/" -> 47
      [] c = "0" -> 48
      [] c = "1" -> 49
      [] c = "2" -> 50
      [] c = "9" -> 57
      [] c = ":" -> 58
      [] c = EQ -> 61
      [] c = "@" -> 64
      [] c = "A" -> 65
      [] c = "B" -> 66
      [] c = "C" -> 67
      [] c = "L" -> 76
      [] c = "N" -> 78
      [] c = "O" -> 79
      [] c = "S" -> 83
      [] c = "X" -> 88
      [] c = "Y" -> 89
      [] c = "Z" -> 90
      [] c = "[" -> 91
      [] c = BS -> 92
      [] c = "^" -> 94
      [] c = "_" -> 95
      [] c = "a" -> 97
      [] c = "b" -> 98
      [] c = "c" -> 99
      [] c = "e" -> 101
      [] c = "l" -> 108
      [] c = "n" -> 110
      [] c = "o" -> 111
      [] c = "r" -> 114
      [] c = "s" -> 115
      [] c = "t" -> 116
      [] c = "x" -> 120
      [] c = "y" -> 121
      [] c = "z" -> 122
      [] c = "{" -> 123
      [] OTHER -> 47

\* Go's < on strings: bytewise lexicographic order
RECURSIVE StrLess(_, _)
StrLess(a, b) ==
    IF b = <<>> THEN FALSE
    ELSE IF a = <<>> THEN TRUE
    ELSE IF ByteOf(Head(a)) < ByteOf(Head(b)) THEN TRUE
    ELSE IF ByteOf(Head(a)) > ByteOf(Head(b)) THEN FALSE
    ELSE StrLess(Tail(a), Tail(b))

\* sort.Strings over the keys of a map
RECURSIVE SortStrings(_)
SortStrings(S) ==
    IF S = {} THEN <<>>
    ELSE LET m == CHOOSE x \in S : \A y \in S \ {x} : StrLess(x, y)
         IN  <<m>> \o SortStrings(S \ {m})

\* strings.ReplaceAll for a non-empty old
RECURSIVE ReplaceAll(_, _, _)
ReplaceAll(s, old, new) ==
    IF Len(s) < Len(old) THEN s
    ELSE IF SubSeq(s, 1, Len(old)) = old
         THEN new \o ReplaceAll(SubSeq(s, Len(old) + 1, Len(s)), old, new)
         ELSE <<Head(s)>> \o ReplaceAll(Tail(s), old, new)

\* unicode.IsSpace on the characters of the model
IsSpace(c) == c \in {SP, TAB, LF, CR, FF}

\* strings.TrimSpace
RECURSIVE TrimLeft(_)
TrimLeft(s) ==
    IF s # <<>> /\ IsSpace(Head(s)) THEN TrimLeft(Tail(s)) ELSE s

RECURSIVE TrimRight(_)
TrimRight(s) ==
    IF s # <<>> /\ IsSpace(s[Len(s)])
    THEN TrimRight(SubSeq(s, 1, Len(s) - 1)) ELSE s

TrimSpace(s) == TrimRight(TrimLeft(s))

\* strings.ContainsAny
ContainsAny(s, chars) == \E i \in 1..Len(s) : s[i] \in chars

\* index of the first occurrence of character c in s, 0 when there is none
IndexOf(s, c) ==
    IF \E i \in 1..Len(s) : s[i] = c
    THEN CHOOSE i \in 1..Len(s) : s[i] = c /\ \A j \in 1..(i - 1) : s[j] # c
    ELSE 0

\* strings.Split(s, sep) for a one-character separator
RECURSIVE Split(_, _)
Split(s, sep) ==
    LET i == IndexOf(s, sep)
    IN  IF i = 0 THEN <<s>>
        ELSE <<SubSeq(s, 1, i - 1)>> \o Split(SubSeq(s, i + 1, Len(s)), sep)

\* a split at the last separator instead of the first
SplitN2AtLast(s, sep) ==
    IF \A i \in 1..Len(s) : s[i] # sep THEN <<s>>
    ELSE LET i == CHOOSE j \in 1..Len(s) :
                      s[j] = sep /\ \A m \in (j + 1)..Len(s) : s[m] # sep
         IN  <<SubSeq(s, 1, i - 1), SubSeq(s, i + 1, Len(s))>>

\* strings.SplitN(s, sep, 2)
SplitN2(s, sep) ==
    LET i == IndexOf(s, sep)
    IN  IF i = 0 THEN <<s>>
        ELSE <<SubSeq(s, 1, i - 1), SubSeq(s, i + 1, Len(s))>>

\* strings.ToLower on the letters the responses use
LowerChar(c) ==
    CASE c = "Y" -> "y"
      [] c = "N" -> "n"
      [] c = "A" -> "a"
      [] c = "C" -> "c"
      [] c = "E" -> "e"
      [] c = "S" -> "s"
      [] c = "O" -> "o"
      [] c = "L" -> "l"
      [] OTHER -> c

ToLower(s) == [i \in 1..Len(s) |-> LowerChar(s[i])]

RECURSIVE Concat(_)
Concat(ss) == IF ss = <<>> THEN <<>> ELSE Head(ss) \o Concat(Tail(ss))

----------------------------------------------------------------------------
(* Env-file codec *)

\* needsQuoting without the single quote
needsQuotingNoSingleQuote(value) ==
    ContainsAny(value, {SP, TAB, LF, CR, DQ, BS})

needsQuoting(value) == ContainsAny(value, {SP, TAB, LF, CR, DQ, SQ, BS})

\* escapeValue without the doubling of the backslash
escapeValueNoBackslash(value) ==
    LET v2 == ReplaceAll(value, <<DQ>>, <<BS, DQ>>)
        v3 == ReplaceAll(v2, <<LF>>, <<BS, "n">>)
        v4 == ReplaceAll(v3, <<CR>>, <<BS, "r">>)
    IN  ReplaceAll(v4, <<TAB>>, <<BS, "t">>)

\* escapeValue without the escaping of the double quote
escapeValueNoQuote(value) ==
    LET v1 == ReplaceAll(value, <<BS>>, <<BS, BS>>)
        v3 == ReplaceAll(v1, <<LF>>, <<BS, "n">>)
        v4 == ReplaceAll(v3, <<CR>>, <<BS, "r">>)
    IN  ReplaceAll(v4, <<TAB>>, <<BS, "t">>)

escapeValue(value) ==
    LET v1 == ReplaceAll(value, <<BS>>, <<BS, BS>>)
        v2 == ReplaceAll(v1, <<DQ>>, <<BS, DQ>>)
        v3 == ReplaceAll(v2, <<LF>>, <<BS, "n">>)
        v4 == ReplaceAll(v3, <<CR>>, <<BS, "r">>)
    IN  ReplaceAll(v4, <<TAB>>, <<BS, "t">>)

\* the text of one line writeEnvFile prints for key
EnvLine(key, value, alwaysQuote) ==
    LET v == IF alwaysQuote \/ needsQuoting(value)
             THEN <<DQ>> \o escapeValue(value) \o <<DQ>>
             ELSE value
    IN  key \o <<EQ>> \o v \o <<LF>>

\* the text writeEnvFile leaves in the file
writeEnvFile(envVars, alwaysQuote) ==
    LET keys == SortStrings(DOMAIN envVars)
    IN  Concat([i \in 1..Len(keys) |->
                   EnvLine(keys[i], envVars[keys[i]], alwaysQuote)])

\* sort.Strings(keys) on the slice of keys collected from the map
RECURSIVE InsertKey(_, _)
InsertKey(sorted, key) ==
    IF sorted = <<>> THEN <<key>>
    ELSE IF StrLess(key, Head(sorted)) THEN <<key>> \o sorted
    ELSE <<Head(sorted)>> \o InsertKey(Tail(sorted), key)

\* the keys left in the order the map was iterated
SortKeysNone(keys) == keys

RECURSIVE SortKeys(_)
SortKeys(keys) ==
    IF keys = <<>> THEN <<>>
    ELSE InsertKey(SortKeys(Tail(keys)), Head(keys))

\* the text writeEnvFile leaves in the file when "for key := range envVars"
\* visits the keys in the given order
writeEnvFileFrom(envVars, alwaysQuote, order) ==
    LET keys == SortKeys(order)
    IN  Concat([i \in 1..Len(keys) |->
                   EnvLine(keys[i], envVars[keys[i]], alwaysQuote)])

\* quote removal that knows double quotes only
UnquoteValueDoubleOnly(value) ==
    IF Len(value) >= 2 /\ value[1] = DQ /\ value[Len(value)] = DQ
    THEN LET v0 == SubSeq(value, 2, Len(value) - 1)
             v1 == ReplaceAll(v0, <<BS, BS>>, <<BS>>)
             v2 == ReplaceAll(v1, <<BS, DQ>>, <<DQ>>)
             v3 == ReplaceAll(v2, <<BS, "n">>, <<LF>>)
             v4 == ReplaceAll(v3, <<BS, "r">>, <<CR>>)
         IN  ReplaceAll(v4, <<BS, "t">>, <<TAB>>)
    ELSE value

\* the value of a line after quote removal and unescaping
UnquoteValue(value) ==
    IF Len(value) >= 2
       /\ \/ (value[1] = DQ /\ value[Len(value)] = DQ)
          \/ (value[1] = SQ /\ value[Len(value)] = SQ)
    THEN LET v0 == SubSeq(value, 2, Len(value) - 1)
             v1 == ReplaceAll(v0, <<BS, BS>>, <<BS>>)
             v2 == ReplaceAll(v1, <<BS, DQ>>, <<DQ>>)
             v3 == ReplaceAll(v2, <<BS, "n">>, <<LF>>)
             v4 == ReplaceAll(v3, <<BS, "r">>, <<CR>>)
         IN  ReplaceAll(v4, <<BS, "t">>, <<TAB>>)
    ELSE value

\* readEnvFile numbering the lines from 0
RECURSIVE ReadLinesFromZero(_, _, _)
ReadLinesFromZero(lines, i, envVars) ==
    IF i > Len(lines) THEN [err |-> FALSE, line |-> 0, envVars |-> envVars]
    ELSE LET line == TrimSpace(lines[i])
         IN  IF line = <<>> \/ Head(line) = HASH
             THEN ReadLinesFromZero(lines, i + 1, envVars)
             ELSE LET parts == SplitN2(line, EQ)
                  IN  IF Len(parts) # 2
                      THEN [err |-> TRUE, line |-> i - 1, envVars |-> <<>>]
                      ELSE ReadLinesFromZero(lines, i + 1,
                               [k \in DOMAIN envVars \cup {TrimSpace(parts[1])}
                                   |-> IF k = TrimSpace(parts[1])
                                       THEN UnquoteValue(TrimSpace(parts[2]))
                                       ELSE envVars[k]])

\* readEnvFile over the file's text: [err, line, envVars]
RECURSIVE ReadLines(_, _, _)
ReadLines(lines, i, envVars) ==
    IF i > Len(lines) THEN [err |-> FALSE, line |-> 0, envVars |-> envVars]
    ELSE LET line == TrimSpace(lines[i])
         IN  IF line = <<>> \/ Head(line) = HASH
             THEN ReadLines(lines, i + 1, envVars)
             ELSE LET parts == SplitN2(line, EQ)
                  IN  IF Len(parts) # 2
                      THEN [err |-> TRUE, line |-> i, envVars |-> <<>>]
                      ELSE LET key == TrimSpace(parts[1])
                               value == UnquoteValue(TrimSpace(parts[2]))
                           IN  ReadLines(lines, i + 1,
                                   [k \in DOMAIN envVars \cup {key} |->
                                       IF k = key THEN value ELSE envVars[k]])

readEnvFile(text) == ReadLines(Split(text, LF), 1, <<>>)

----------------------------------------------------------------------------
(* Remote store adapter *)

\* What one adapter call returns.  val is the value found, or the text of
\* the SDK's error, which is opaque here; "auth" is an HTTP 401/403
\* response, which only the Azure code tells apart from other errors.
Found(v) == [kind |-> "found", val |-> v]
NotFound == [kind |-> "notfound", val |-> <<>>]
AdapterError == [kind |-> "error", val |-> <<>>]
AuthError == [kind |-> "auth", val |-> <<>>]

\* the adapter calls
GetCall(id) == [op |-> "get", id |-> id, val |-> <<>>]
PutCall(id, v) == [op |-> "put", id |-> id, val |-> v]

\* the orders in which a range loop may visit the keys of a Go map
RangeOrders(m) ==
    LET n == Cardinality(DOMAIN m)
    IN  {o \in [1..n -> DOMAIN m] : \A i, j \in 1..n : i # j => o[i] # o[j]}

\* m with m[key] = value
MapSet(m, key, value) ==
    [k \in DOMAIN m \cup {key} |-> IF k = key THEN value ELSE m[k]]

\* the GetParameter / GetSecret calls made for the first n keys of order
GetCalls(pm, order, n) == [j \in 1..n |-> GetCall(pm[order[j]])]

\* what a fetch returns: err, the variable named in the error and the text
\* of the wrapped SDK error, auth (the error is checkAzureAuthError's),
\* the snapshot, the warnings printed and the adapter calls made
FetchOk(envVars, msgs, cs) ==
    [err |-> FALSE, auth |-> FALSE, key |-> <<>>, cause |-> <<>>,
     envVars |-> envVars, msgs |-> msgs, calls |-> cs]

FetchFailed(envKey, cause, msgs, cs) ==
    [err |-> TRUE, auth |-> FALSE, key |-> envKey, cause |-> cause,
     envVars |-> <<>>, msgs |-> msgs, calls |-> cs]

FetchAuthFailed(msgs, cs) ==
    [err |-> TRUE, auth |-> TRUE, key |-> <<>>, cause |-> <<>>,
     envVars |-> <<>>, msgs |-> msgs, calls |-> cs]

\* fetchParameters dropping a value that is the empty string
RECURSIVE FetchLoopDropEmpty(_, _, _, _, _, _)
FetchLoopDropEmpty(pm, st, order, i, envVars, msgs) ==
    IF i > Len(order)
    THEN FetchOk(envVars, msgs, GetCalls(pm, order, Len(order)))
    ELSE LET envKey == order[i]
             result == st[pm[envKey]]
         IN  IF result.kind = "notfound"
             THEN FetchLoopDropEmpty(pm, st, order, i + 1, envVars,
                      Append(msgs, [t |-> "warning", key |-> envKey]))
             ELSE IF result.kind # "found"
             THEN FetchFailed(envKey, result.val, msgs,
                              GetCalls(pm, order, i))
             ELSE IF result.val = <<>>
             THEN FetchLoopDropEmpty(pm, st, order, i + 1, envVars, msgs)
             ELSE FetchLoopDropEmpty(pm, st, order, i + 1,
                      MapSet(envVars, envKey, result.val), msgs)

fetchParametersDropEmpty(pm, st, order) ==
    FetchLoopDropEmpty(pm, st, order, 1, <<>>, <<>>)

\* fetchParameters leaving its loop at the first parameter not found
RECURSIVE FetchLoopBreak(_, _, _, _, _, _)
FetchLoopBreak(pm, st, order, i, envVars, msgs) ==
    IF i > Len(order)
    THEN FetchOk(envVars, msgs, GetCalls(pm, order, Len(order)))
    ELSE LET envKey == order[i]
             result == st[pm[envKey]]
         IN  IF result.kind = "notfound"
             THEN FetchOk(envVars,
                          Append(msgs, [t |-> "warning", key |-> envKey]),
                          GetCalls(pm, order, i))
             ELSE IF result.kind # "found"
             THEN FetchFailed(envKey, result.val, msgs,
                              GetCalls(pm, order, i))
             ELSE FetchLoopBreak(pm, st, order, i + 1,
                      MapSet(envVars, envKey, result.val), msgs)

fetchParametersBreak(pm, st, order) ==
    FetchLoopBreak(pm, st, order, 1, <<>>, <<>>)

\* fetchParameters, visiting the mapping in the given order
RECURSIVE FetchLoop(_, _, _, _, _, _)
FetchLoop(pm, st, order, i, envVars, msgs) ==
    IF i > Len(order)
    THEN FetchOk(envVars, msgs, GetCalls(pm, order, Len(order)))
    ELSE LET envKey == order[i]
             result == st[pm[envKey]]
         IN  IF result.kind = "notfound"
             THEN FetchLoop(pm, st, order, i + 1, envVars,
                      Append(msgs, [t |-> "warning", key |-> envKey]))
             ELSE IF result.kind # "found"
             THEN FetchFailed(envKey, result.val, msgs,
                              GetCalls(pm, order, i))
             ELSE FetchLoop(pm, st, order, i + 1,
                      MapSet(envVars, envKey, result.val), msgs)

fetchParameters(pm, st, order) == FetchLoop(pm, st, order, 1, <<>>, <<>>)

\* fetchParametersFromAzure, visiting the mapping in the given order
RECURSIVE AzureFetchLoop(_, _, _, _, _, _)
AzureFetchLoop(pm, st, order, i, envVars, msgs) ==
    IF i > Len(order)
    THEN FetchOk(envVars, msgs, GetCalls(pm, order, Len(order)))
    ELSE LET envKey == order[i]
             resp == st[pm[envKey]]
         IN  IF resp.kind = "auth"
             THEN FetchAuthFailed(msgs, GetCalls(pm, order, i))
             ELSE IF resp.kind = "notfound"
             THEN AzureFetchLoop(pm, st, order, i + 1, envVars,
                      Append(msgs, [t |-> "warning", key |-> envKey]))
             ELSE IF resp.kind # "found"
             THEN FetchFailed(envKey, resp.val, msgs,
                              GetCalls(pm, order, i))
             ELSE AzureFetchLoop(pm, st, order, i + 1,
                      MapSet(envVars, envKey, resp.val), msgs)

fetchParametersFromAzure(pm, st, order) ==
    AzureFetchLoop(pm, st, order, 1, <<>>, <<>>)

\* the error main prints when a fetch fails
FetchErrorMsg(f) ==
    IF f.auth THEN [t |-> "autherror"]
    ELSE [t |-> "fetcherror", key |-> f.key, cause |-> f.cause]

----------------------------------------------------------------------------
(* Reconciliation engine *)

Difference(key, localVal, ssmVal, ssmPath) ==
    [Key |-> key, LocalVal |-> localVal, SSMVal |-> ssmVal,
     SSMPath |-> ssmPath, ExistsSSM |-> TRUE]

\* CompareLoop without the "local has the key but SSM doesn't" skip
RECURSIVE CompareLoopNoSkip(_, _, _, _, _)
CompareLoopNoSkip(local, ssm, pm, order, i) ==
    IF i > Len(order) THEN <<>>
    ELSE LET envKey == order[i]
             localVal == IF envKey \in DOMAIN local THEN local[envKey]
                         ELSE <<>>
             ssmVal == IF envKey \in DOMAIN ssm THEN ssm[envKey] ELSE <<>>
             rest == CompareLoopNoSkip(local, ssm, pm, order, i + 1)
         IN  IF envKey \notin DOMAIN local
             THEN IF envKey \in DOMAIN ssm
                  THEN <<Difference(envKey, <<>>, ssmVal, pm[envKey])>> \o rest
                  ELSE rest
             ELSE IF localVal # ssmVal \/ envKey \notin DOMAIN ssm
             THEN <<Difference(envKey, localVal, ssmVal, pm[envKey])>> \o rest
             ELSE rest

\* CompareLoop without the "local doesn't have this key" case
RECURSIVE CompareLoopNoInsert(_, _, _, _, _)
CompareLoopNoInsert(local, ssm, pm, order, i) ==
    IF i > Len(order) THEN <<>>
    ELSE LET envKey == order[i]
             rest == CompareLoopNoInsert(local, ssm, pm, order, i + 1)
         IN  IF envKey \in DOMAIN local /\ envKey \in DOMAIN ssm
                /\ local[envKey] # ssm[envKey]
             THEN <<Difference(envKey, local[envKey], ssm[envKey],
                               pm[envKey])>> \o rest
             ELSE rest

\* the comparison loop of syncParameters, visiting the mapping in the given
\* order: the differences in the order they are appended
RECURSIVE CompareLoop(_, _, _, _, _)
CompareLoop(local, ssm, pm, order, i) ==
    IF i > Len(order) THEN <<>>
    ELSE LET envKey == order[i]
             localExists == envKey \in DOMAIN local
             ssmExists == envKey \in DOMAIN ssm
             rest == CompareLoop(local, ssm, pm, order, i + 1)
         IN  IF ~localExists
             THEN IF ssmExists
                  THEN <<Difference(envKey, <<>>, ssm[envKey], pm[envKey])>>
                       \o rest
                  ELSE rest
             ELSE IF ~ssmExists THEN rest
             ELSE IF local[envKey] # ssm[envKey]
             THEN <<Difference(envKey, local[envKey], ssm[envKey],
                               pm[envKey])>> \o rest
             ELSE rest

\* the differences left in the order of the comparison loop
SortDifferencesNone(ds) == ds

\* sort.Slice(differences, Key[i] < Key[j])
RECURSIVE SortDifferences(_)
SortDifferences(ds) ==
    IF ds = <<>> THEN <<>>
    ELSE LET m == CHOOSE i \in 1..Len(ds) :
                      \A j \in 1..Len(ds) : ~StrLess(ds[j].Key, ds[i].Key)
         IN  <<ds[m]>> \o
             SortDifferences(SubSeq(ds, 1, m - 1) \o SubSeq(ds, m + 1, Len(ds)))

\* the marker printed in place of the local value
NotSetText == <<"(not set)">>

\* the text printed after "Local:" for a difference
LocalText(diff) == IF diff.LocalVal = <<>> THEN NotSetText ELSE diff.LocalVal

\* the report of the differences
DisplayDifferences(ds) ==
    <<[t |-> "found", n |-> Len(ds)]>> \o
    [i \in 1..Len(ds) |->
        [t |-> "diff", i |-> i, key |-> ds[i].Key, local |-> LocalText(ds[i]),
         remote |-> ds[i].SSMVal, path |-> ds[i].SSMPath]]

\* a merge that inserts missing keys and keeps the value of existing ones
RECURSIVE MergeUpdatesInsertOnly(_, _)
MergeUpdatesInsertOnly(local, tu) ==
    IF tu = <<>> THEN local
    ELSE MergeUpdatesInsertOnly(
             IF Head(tu).Key \in DOMAIN local THEN local
             ELSE MapSet(local, Head(tu).Key, Head(tu).SSMVal),
             Tail(tu))

\* the loop "localEnvVars[diff.Key] = diff.SSMVal" over toUpdate
RECURSIVE MergeUpdates(_, _)
MergeUpdates(local, tu) ==
    IF tu = <<>> THEN local
    ELSE MergeUpdates(MapSet(local, Head(tu).Key, Head(tu).SSMVal), Tail(tu))

\* an update that writes the updated keys only
ApplyUpdatesOnlyChanged(local, text, tu, alwaysQuote, nwrites) ==
    IF Len(tu) = 0
    THEN [localEnvVars |-> local, file |-> text, writes |-> nwrites,
          msgs |-> <<[t |-> "none"]>>]
    ELSE LET merged == MergeUpdates(local, tu)
             changed == [k \in {tu[i].Key : i \in 1..Len(tu)} |-> merged[k]]
         IN  [localEnvVars |-> merged,
              file |-> writeEnvFile(changed, alwaysQuote),
              writes |-> nwrites + 1,
              msgs |-> <<[t |-> "updated", n |-> Len(tu)]>>]

\* an update that writes the file also for an empty decision set
ApplyUpdatesAlways(local, text, tu, alwaysQuote, nwrites) ==
    LET merged == MergeUpdates(local, tu)
    IN  [localEnvVars |-> merged,
         file |-> writeEnvFile(merged, alwaysQuote),
         writes |-> nwrites + 1,
         msgs |-> IF Len(tu) = 0 THEN <<[t |-> "none"]>>
                  ELSE <<[t |-> "updated", n |-> Len(tu)]>>]

\* syncParameters from "if len(toUpdate) == 0" to its end, given the decision
\* set: the new localEnvVars, file text, write count and messages
ApplyUpdates(local, text, tu, alwaysQuote, nwrites) ==
    IF Len(tu) = 0
    THEN [localEnvVars |-> local, file |-> text, writes |-> nwrites,
          msgs |-> <<[t |-> "none"]>>]
    ELSE LET merged == MergeUpdates(local, tu)
         IN  [localEnvVars |-> merged,
              file |-> writeEnvFile(merged, alwaysQuote),
              writes |-> nwrites + 1,
              msgs |-> <<[t |-> "updated", n |-> Len(tu)]>>]

----------------------------------------------------------------------------
(* Mapping loader *)

IsUpper(c) == ByteOf(c) >= 65 /\ ByteOf(c) <= 90
IsLower(c) == ByteOf(c) >= 97 /\ ByteOf(c) <= 122
IsDigit(c) == ByteOf(c) >= 48 /\ ByteOf(c) <= 57

\* strings.Contains
Contains(s, sub) ==
    \E i \in 1..(Len(s) - Len(sub) + 1) :
        \A j \in 1..Len(sub) : s[i + j - 1] = sub[j]

\* The validators are TRUE when the function returns a nil error.

\* validateFilePath without the check for ".."
validateFilePathNoTraversal(path) ==
    /\ path # <<>>
    /\ ~Contains(TrimSpace(path), <<NUL>>)

validateFilePath(path) ==
    /\ path # <<>>
    /\ ~Contains(TrimSpace(path), <<".", ".">>)
    /\ ~Contains(TrimSpace(path), <<NUL>>)

validateEnvVarName(name) ==
    /\ name # <<>>
    /\ ~IsDigit(name[1])
    /\ \A i \in 1..Len(name) :
          IsUpper(name[i]) \/ IsLower(name[i]) \/ IsDigit(name[i])
          \/ name[i] = "_"

\* validateSSMPath without the check of the length
validateSSMPathNoLength(path) ==
    /\ path # <<>>
    /\ path[1] = "/"
    /\ \A i \in 1..Len(path) :
          IsUpper(path[i]) \/ IsLower(path[i]) \/ IsDigit(path[i])
          \/ path[i] \in {"-", "_", ".", "/"}
    /\ ~Contains(path, <<".", ".">>)

validateSSMPath(path) ==
    /\ path # <<>>
    /\ path[1] = "/"
    /\ \A i \in 1..Len(path) :
          IsUpper(path[i]) \/ IsLower(path[i]) \/ IsDigit(path[i])
          \/ path[i] \in {"-", "_", ".", "/"}
    /\ ~Contains(path, <<".", ".">>)
    /\ Len(path) <= 2048

validateAzureSecretName(name) ==
    /\ name # <<>>
    /\ Len(name) <= 127
    /\ \A i \in 1..Len(name) :
          IsUpper(name[i]) \/ IsLower(name[i]) \/ IsDigit(name[i])
          \/ name[i] = "-"

\* a validation of the mapping that checks the names only
validateParameterMapNamesOnly(pm) ==
    /\ DOMAIN pm # {}
    /\ \A envKey \in DOMAIN pm : validateEnvVarName(envKey)

validateParameterMap(pm) ==
    /\ DOMAIN pm # {}
    /\ \A envKey \in DOMAIN pm :
          validateEnvVarName(envKey) /\ validateSSMPath(pm[envKey])

validateAzureParameterMap(pm) ==
    /\ DOMAIN pm # {}
    /\ \A envKey \in DOMAIN pm :
          validateEnvVarName(envKey) /\ validateAzureSecretName(pm[envKey])

\* loadParameterMap for SSM, loadParameterMapRaw and
\* validateAzureParameterMap for Azure: TRUE when main goes on
MappingAccepted(pm, az) ==
    IF az THEN validateAzureParameterMap(pm) ELSE validateParameterMap(pm)

----------------------------------------------------------------------------
(* The local file *)

\* the permission bits writeEnvFile passes to os.OpenFile: 0600
OwnerReadWrite == 384

NoFile == [exists |-> FALSE, perm |-> 0]
FileWith(perm) == [exists |-> TRUE, perm |-> perm]

\* os.OpenFile(filename, O_CREATE|O_WRONLY|O_TRUNC, perm): the permission
\* bits are those of the call only when the call creates the file (the
\* umask, which can only clear bits of them, is taken as 0)
OpenFile(info, perm) == IF info.exists THEN info ELSE FileWith(perm)

\* the file as writeEnvFile leaves it
writeEnvFileInfo(info) == OpenFile(info, OwnerReadWrite)

\* readEnvFile on the file: os.ReadFile fails when there is no file
readEnvFileAt(info, text) ==
    IF info.exists THEN readEnvFile(text)
    ELSE [err |-> TRUE, line |-> 0, envVars |-> <<>>]

----------------------------------------------------------------------------
(* Transfer operations *)

\* what a push returns: err, the variable named in the error and the text
\* of the wrapped SDK error, auth (the error is checkAzureAuthError's), the
\* store as the calls leave it and the adapter calls made
PushOk(st, cs) ==
    [err |-> FALSE, auth |-> FALSE, key |-> <<>>, cause |-> <<>>,
     store |-> st, calls |-> cs]

PushFailed(envKey, failure, az, st, cs) ==
    [err |-> TRUE, auth |-> az /\ failure.kind = "auth", key |-> envKey,
     cause |-> failure.val, store |-> st, calls |-> cs]

\* a push that goes on with the next entry after a failed call
RECURSIVE PushLoopContinue(_, _, _, _, _, _, _, _)
PushLoopContinue(envVars, pm, st, fails, az, order, i, cs) ==
    IF i > Len(order) THEN PushOk(st, cs)
    ELSE LET envKey == order[i]
             id == pm[envKey]
         IN  IF envKey \notin DOMAIN envVars
             THEN PushLoopContinue(envVars, pm, st, fails, az, order, i + 1,
                                   cs)
             ELSE IF id \in DOMAIN fails
             THEN PushLoopContinue(envVars, pm, st, fails, az, order, i + 1,
                                   Append(cs, PutCall(id, envVars[envKey])))
             ELSE PushLoopContinue(envVars, pm,
                      MapSet(st, id, Found(envVars[envKey])), fails, az,
                      order, i + 1,
                      Append(cs, PutCall(id, envVars[envKey])))

\* a push that stores every mapped name, the empty string for a name the
\* local snapshot lacks
RECURSIVE PushLoopNoSkip(_, _, _, _, _, _, _, _)
PushLoopNoSkip(envVars, pm, st, fails, az, order, i, cs) ==
    IF i > Len(order) THEN PushOk(st, cs)
    ELSE LET envKey == order[i]
             id == pm[envKey]
             value == IF envKey \in DOMAIN envVars THEN envVars[envKey]
                      ELSE <<>>
         IN  IF id \in DOMAIN fails
             THEN PushFailed(envKey, fails[id], az, st,
                             Append(cs, PutCall(id, value)))
             ELSE PushLoopNoSkip(envVars, pm, MapSet(st, id, Found(value)),
                      fails, az, order, i + 1,
                      Append(cs, PutCall(id, value)))

\* the loop of pushParameters and pushParametersToAzure, visiting the
\* mapping in the given order; fails gives the error of the identifiers at
\* which PutParameter / SetSecret fails
RECURSIVE PushLoop(_, _, _, _, _, _, _, _)
PushLoop(envVars, pm, st, fails, az, order, i, cs) ==
    IF i > Len(order) THEN PushOk(st, cs)
    ELSE LET envKey == order[i]
             id == pm[envKey]
         IN  IF envKey \notin DOMAIN envVars
             THEN PushLoop(envVars, pm, st, fails, az, order, i + 1, cs)
             ELSE IF id \in DOMAIN fails
             THEN PushFailed(envKey, fails[id], az, st,
                             Append(cs, PutCall(id, envVars[envKey])))
             ELSE PushLoop(envVars, pm,
                      MapSet(st, id, Found(envVars[envKey])), fails, az,
                      order, i + 1,
                      Append(cs, PutCall(id, envVars[envKey])))

pushParametersContinue(envVars, pm, st, fails, az, order) ==
    PushLoopContinue(envVars, pm, st, fails, az, order, 1, <<>>)

pushParametersNoSkip(envVars, pm, st, fails, az, order) ==
    PushLoopNoSkip(envVars, pm, st, fails, az, order, 1, <<>>)

pushParameters(envVars, pm, st, fails, az, order) ==
    PushLoop(envVars, pm, st, fails, az, order, 1, <<>>)

\* pushSingleParameter and pushSingleParameterToAzure
pushSingleParameter(value, id, st, fails, az) ==
    IF id \in DOMAIN fails
    THEN PushFailed(<<>>, fails[id], az, st, <<PutCall(id, value)>>)
    ELSE PushOk(MapSet(st, id, Found(value)), <<PutCall(id, value)>>)

\* the error main prints when a push fails
PushErrorMsg(p) ==
    IF p.auth THEN [t |-> "autherror"]
    ELSE [t |-> "pusherror", key |-> p.key, cause |-> p.cause]

----------------------------------------------------------------------------
(* The inputs of a run *)

KA == <<"A">>
KB == <<"B">>
KC == <<"C">>
EnvKeys == {KA, KB, KC}

\* the remote identifier the mapping file gives for a key
SSMPathOf(k) ==
    CASE k = KA -> <<"/", "a">>
      [] k = KB -> <<"/", "b">>
      [] OTHER -> <<"/", "c">>

\* a mapping file naming the keys of S
MappingOf(S) == [k \in S |-> SSMPathOf(k)]

Range(f) == {f[x] : x \in DOMAIN f}

\* the maps from a subset of S to V
PartialMaps(S, V) == UNION {[T -> V] : T \in SUBSET S}

\* The runs explored: mappings of one or two keys with every combination of
\* local value (absent, "1", empty) and remote outcome (not found, error,
\* "1", "2", empty), and the mapping of all three keys with the local values
\* absent or "1" and the remote outcomes not found, "1" or "2".
NarrowInputs ==
    UNION {
        {[paramMap |-> pm, store |-> st, env |-> env] :
            st \in [Range(pm) ->
                      {NotFound, AdapterError, Found(<<"1">>), Found(<<"2">>),
                       Found(<<>>)}],
            env \in PartialMaps(EnvKeys, {<<"1">>, <<>>})} :
        pm \in {MappingOf(S) : S \in (SUBSET {KA, KB}) \ {{}}}}

WideInputs ==
    {[paramMap |-> MappingOf(EnvKeys), store |-> st, env |-> env] :
        st \in [{SSMPathOf(k) : k \in EnvKeys} ->
                  {NotFound, Found(<<"1">>), Found(<<"2">>)}],
        env \in PartialMaps(EnvKeys, {<<"1">>})}

Inputs == NarrowInputs \cup WideInputs

\* a .env file as a user keeps it: a comment line, then one KEY=VALUE line
\* per variable
UserFile(env) ==
    LET keys == SortStrings(DOMAIN env)
    IN  <<HASH, SP, "x", LF>> \o
        Concat([i \in 1..Len(keys) |->
                   keys[i] \o <<EQ>> \o env[keys[i]] \o <<LF>>])

\* what the terminal may deliver to one fmt.Scanln(&response); the empty
\* string stands for an empty line or a read error
Responses ==
    {<<"y">>, <<"Y", "E", "S">>, <<"n">>, <<"N", "o">>, <<"a">>,
     <<"A", "l", "l">>, <<"c">>, <<"c", "a", "n", "c", "e", "l">>, <<>>,
     <<"y", "e">>}

\* the default of --env
DefaultEnvFile == <<".", "e", "n", "v">>

\* --key, --value and --ssm-path / --secret-name not given
NoSingle == [key |-> <<>>, value |-> <<>>, id |-> <<>>]

\* readEnvFile has not been called
NotParsed == [err |-> FALSE, line |-> 0, envVars |-> <<>>]

Init ==
    /\ \E in \in Inputs :
          /\ paramMap = in.paramMap
          /\ store = in.store
          /\ file = UserFile(in.env)
    /\ file0 = file
    /\ local0 = <<>>
    /\ force \in BOOLEAN
    /\ quotes \in BOOLEAN
    /\ pc = "start"
    /\ localEnvVars = <<>>
    /\ ssmEnvVars = <<>>
    /\ differences = <<>>
    /\ toUpdate = <<>>
    /\ idx = 0
    /\ response = <<>>
    /\ out = <<>>
    /\ writes = 0
    /\ invalids = 0
    /\ exitCode = -1
    /\ mode = "sync"
    /\ azure = FALSE
    /\ single = NoSingle
    /\ putFails = <<>>
    /\ calls = <<>>
    /\ fileInfo = FileWith(OwnerReadWrite)
    /\ parsed = NotParsed
    /\ pass = 0
    /\ eof = FALSE
    /\ filename = DefaultEnvFile

----------------------------------------------------------------------------
(* main, sync mode *)

Exit(code, msgs) ==
    /\ pc' = "done"
    /\ exitCode' = code
    /\ out' = out \o msgs

\* fetchParameters or fetchParametersFromAzure, as --azure selects
Fetch(az, pm, st, order) ==
    IF az THEN fetchParametersFromAzure(pm, st, order)
    ELSE fetchParameters(pm, st, order)

\* main loads the mapping and reads the .env file, then syncParameters
\* fetches the remote values
SyncFetch ==
    /\ pc = "start"
    /\ mode = "sync"
    /\ IF ~MappingAccepted(paramMap, azure)
       THEN /\ Exit(1, <<[t |-> "maperror"]>>)
            /\ UNCHANGED <<localEnvVars, local0, ssmEnvVars, calls>>
       ELSE \E rd \in {readEnvFileAt(fileInfo, file)} :
           IF rd.err
           THEN /\ Exit(1, <<[t |-> "readerror", line |-> rd.line]>>)
                /\ UNCHANGED <<localEnvVars, local0, ssmEnvVars, calls>>
           ELSE \E order \in RangeOrders(paramMap) :
                   \E f \in {Fetch(azure, paramMap, store, order)} :
                       /\ calls' = calls \o f.calls
                       /\ localEnvVars' = rd.envVars
                       /\ local0' = rd.envVars
                       /\ IF f.err
                          THEN /\ Exit(1, f.msgs \o <<FetchErrorMsg(f)>>)
                               /\ UNCHANGED ssmEnvVars
                          ELSE /\ pc' = "fetched"
                               /\ ssmEnvVars' = f.envVars
                               /\ out' = out \o f.msgs
                               /\ UNCHANGED exitCode
    /\ UNCHANGED <<paramMap, store, file, file0, force, quotes, differences,
                   toUpdate, idx, response, writes, invalids, fileInfo>>
    /\ UNCHANGED given

\* the decision set tu is final: apply it and return
Finish(tu, msgs) ==
    \E a \in {ApplyUpdates(localEnvVars, file, tu, quotes, writes)} :
        /\ toUpdate' = tu
        /\ localEnvVars' = a.localEnvVars
        /\ file' = a.file
        /\ writes' = a.writes
        /\ fileInfo' = IF a.writes = writes THEN fileInfo
                       ELSE writeEnvFileInfo(fileInfo)
        /\ Exit(0, msgs \o a.msgs)

\* syncParameters compares, sorts and reports; under --force it updates
SyncCompare ==
    /\ pc = "fetched"
    /\ \E order \in RangeOrders(paramMap) :
          \E ds \in {SortDifferences(
                         CompareLoop(localEnvVars, ssmEnvVars, paramMap,
                                     order, 1))} :
              /\ differences' = ds
              /\ IF Len(ds) = 0
                 THEN /\ Exit(0, <<[t |-> "insync"]>>)
                      /\ UNCHANGED <<localEnvVars, file, toUpdate, idx, writes,
                                     fileInfo>>
                 ELSE IF force
                 THEN /\ Finish(ds, DisplayDifferences(ds) \o
                                    <<[t |-> "force", n |-> Len(ds)]>>)
                      /\ UNCHANGED idx
                 ELSE /\ pc' = "prompt"
                      /\ idx' = 1
                      /\ out' = out \o DisplayDifferences(ds)
                      /\ UNCHANGED <<localEnvVars, file, toUpdate, writes,
                                     exitCode, fileInfo>>
    /\ UNCHANGED <<paramMap, store, file0, local0, force, quotes, ssmEnvVars,
                   response, invalids, calls>>
    /\ UNCHANGED given

----------------------------------------------------------------------------
(* promptForUpdates *)

\* "yes" that also takes the empty response as the default
IsYesOrEmpty(r) == r \in {<<"y">>, <<"y", "e", "s">>, <<>>}

IsYes(r) == r \in {<<"y">>, <<"y", "e", "s">>}
IsNo(r) == r \in {<<"n">>, <<"n", "o">>}
IsAll(r) == r \in {<<"a">>, <<"a", "l", "l">>}
IsCancel(r) == r \in {<<"c">>, <<"c", "a", "n", "c", "e", "l">>}
IsInvalid(r) == ~(IsYes(r) \/ IsNo(r) \/ IsAll(r) \/ IsCancel(r))

\* the response one fmt.Scanln delivers, after
\* strings.ToLower(strings.TrimSpace(response))
Normalize(r) == ToLower(TrimSpace(r))

\* goto nextDiff with the decision set tu
NextDiff(tu) ==
    IF idx = Len(differences)
    THEN /\ Finish(tu, <<>>)
         /\ UNCHANGED idx
    ELSE /\ idx' = idx + 1
         /\ toUpdate' = tu
         /\ UNCHANGED <<pc, exitCode, localEnvVars, file, writes, out,
                        fileInfo>>

\* the decision set after "yes" at position i
AcceptOne(tu, ds, i) == Append(tu, ds[i])

\* "all" that appends the whole difference list
AcceptAllFromStart(tu, ds, i) == tu \o ds

\* "cancel" that drops what was accepted
CancelDiscards(tu, ds, i) == <<>>

\* the decision set after "all" at position i
AcceptAll(tu, ds, i) == tu \o SubSeq(ds, i, Len(ds))

\* the decision set after "cancel" at position i
CancelResult(tu, ds, i) == tu

\* the position prompted after an invalid response at position i
AfterInvalid(i) == i

PromptYes ==
    /\ pc = "prompt"
    /\ ~eof
    /\ \E r \in Responses :
          /\ IsYes(Normalize(r))
          /\ response' = Normalize(r)
    /\ NextDiff(AcceptOne(toUpdate, differences, idx))
    /\ UNCHANGED <<paramMap, store, file0, local0, force, quotes, ssmEnvVars,
                   differences, invalids, calls>>
    /\ UNCHANGED given

PromptNo ==
    /\ pc = "prompt"
    /\ ~eof
    /\ \E r \in Responses :
          /\ IsNo(Normalize(r))
          /\ response' = Normalize(r)
    /\ NextDiff(toUpdate)
    /\ UNCHANGED <<paramMap, store, file0, local0, force, quotes, ssmEnvVars,
                   differences, invalids, calls>>
    /\ UNCHANGED given

PromptAll ==
    /\ pc = "prompt"
    /\ ~eof
    /\ \E r \in Responses :
          /\ IsAll(Normalize(r))
          /\ response' = Normalize(r)
    /\ Finish(AcceptAll(toUpdate, differences, idx), <<>>)
    /\ UNCHANGED <<paramMap, store, file0, local0, force, quotes, ssmEnvVars,
                   differences, idx, invalids, calls>>
    /\ UNCHANGED given

PromptCancel ==
    /\ pc = "prompt"
    /\ ~eof
    /\ \E r \in Responses :
          /\ IsCancel(Normalize(r))
          /\ response' = Normalize(r)
    /\ Finish(CancelResult(toUpdate, differences, idx), <<>>)
    /\ UNCHANGED <<paramMap, store, file0, local0, force, quotes, ssmEnvVars,
                   differences, idx, invalids, calls>>
    /\ UNCHANGED given

PromptInvalid ==
    /\ pc = "prompt"
    /\ ~eof
    /\ invalids < MaxInvalid
    /\ \E r \in Responses :
          /\ IsInvalid(Normalize(r))
          /\ response' = Normalize(r)
    /\ invalids' = invalids + 1
    /\ idx' = AfterInvalid(idx)
    /\ UNCHANGED <<paramMap, store, file, file0, local0, force, quotes, pc,
                   localEnvVars, ssmEnvVars, differences, toUpdate, writes,
                   exitCode, out, calls, fileInfo>>
    /\ UNCHANGED given

Next ==
    \/ SyncFetch
    \/ SyncCompare
    \/ PromptYes
    \/ PromptNo
    \/ PromptAll
    \/ PromptCancel
    \/ PromptInvalid

Spec == Init /\ [][Next]_vars

----------------------------------------------------------------------------
(* main, pull and push modes *)

\* validateSSMPath or validateAzureSecretName, as --azure selects
IdentifierAccepted(id, az) ==
    IF az THEN validateAzureSecretName(id) ELSE validateSSMPath(id)

\* pull: load the mapping, fetch, write the .env file
Pull ==
    /\ pc = "start"
    /\ mode = "pull"
    /\ IF ~MappingAccepted(paramMap, azure)
       THEN /\ Exit(1, <<[t |-> "maperror"]>>)
            /\ UNCHANGED <<ssmEnvVars, calls, file, fileInfo, writes>>
       ELSE \E order \in RangeOrders(paramMap) :
               \E f \in {Fetch(azure, paramMap, store, order)} :
                   /\ calls' = calls \o f.calls
                   /\ IF f.err
                      THEN /\ Exit(1, f.msgs \o <<FetchErrorMsg(f)>>)
                           /\ UNCHANGED <<ssmEnvVars, file, fileInfo, writes>>
                      ELSE /\ ssmEnvVars' = f.envVars
                           /\ file' = writeEnvFile(f.envVars, quotes)
                           /\ fileInfo' = writeEnvFileInfo(fileInfo)
                           /\ writes' = writes + 1
                           /\ Exit(0, f.msgs \o
                                  <<[t |-> "generated",
                                     n |-> Cardinality(DOMAIN f.envVars)]>>)
    /\ UNCHANGED <<paramMap, store, file0, local0, force, quotes,
                   localEnvVars, differences, toUpdate, idx, response,
                   invalids>>
    /\ UNCHANGED given

\* push with --key: check the flags, validate, store the one value
PushSingle ==
    /\ pc = "start"
    /\ mode = "push"
    /\ single # NoSingle
    /\ IF single.key = <<>> \/ single.value = <<>> \/ single.id = <<>>
       THEN /\ Exit(1, <<[t |-> "usage"]>>)
            /\ UNCHANGED <<store, calls>>
       ELSE IF ~validateEnvVarName(single.key)
       THEN /\ Exit(1, <<[t |-> "nameerror"]>>)
            /\ UNCHANGED <<store, calls>>
       ELSE IF ~IdentifierAccepted(single.id, azure)
       THEN /\ Exit(1, <<[t |-> "iderror"]>>)
            /\ UNCHANGED <<store, calls>>
       ELSE \E p \in {pushSingleParameter(single.value, single.id, store,
                                          putFails, azure)} :
               /\ store' = p.store
               /\ calls' = calls \o p.calls
               /\ IF p.err
                  THEN Exit(1, <<PushErrorMsg(p)>>)
                  ELSE Exit(0, <<[t |-> "pushedone", key |-> single.key,
                                  id |-> single.id]>>)
    /\ UNCHANGED <<paramMap, file, file0, local0, force, quotes, localEnvVars,
                   ssmEnvVars, differences, toUpdate, idx, response, writes,
                   invalids, fileInfo>>
    /\ UNCHANGED given

\* push without --key: load the mapping, read the .env file, store the
\* values of the mapped names
PushFile ==
    /\ pc = "start"
    /\ mode = "push"
    /\ single = NoSingle
    /\ IF ~MappingAccepted(paramMap, azure)
       THEN /\ Exit(1, <<[t |-> "maperror"]>>)
            /\ UNCHANGED <<localEnvVars, local0, store, calls>>
       ELSE \E rd \in {readEnvFileAt(fileInfo, file)} :
           IF rd.err
           THEN /\ Exit(1, <<[t |-> "readerror", line |-> rd.line]>>)
                /\ UNCHANGED <<localEnvVars, local0, store, calls>>
           ELSE \E order \in RangeOrders(paramMap) :
                   \E p \in {pushParameters(rd.envVars, paramMap, store,
                                             putFails, azure, order)} :
                       /\ localEnvVars' = rd.envVars
                       /\ local0' = rd.envVars
                       /\ store' = p.store
                       /\ calls' = calls \o p.calls
                       /\ IF p.err
                          THEN Exit(1, <<PushErrorMsg(p)>>)
                          ELSE Exit(0, <<[t |-> "pushed",
                                          n |-> Cardinality(
                                                    DOMAIN rd.envVars)]>>)
    /\ UNCHANGED <<paramMap, file, file0, force, quotes, ssmEnvVars,
                   differences, toUpdate, idx, response, writes, invalids,
                   fileInfo>>
    /\ UNCHANGED given

----------------------------------------------------------------------------
(* The runs of every mode *)

K1A == <<"1", "A">>

PathA == <<"/", "a">>
PathB == <<"/", "b">>
NameA == <<"a">>
NameB == <<"b">>
PathUp == <<"/", ".", ".">>

\* the identifiers the store is asked about
Identifiers == {PathA, PathB, NameA, NameB, PathUp}

\* mappings loadParameterMap accepts
SSMMappings ==
    {KA :> PathA, (KA :> PathA) @@ (KB :> PathB)}

\* mappings validateAzureParameterMap accepts
AzureMappings ==
    {KA :> NameA, (KA :> NameA) @@ (KB :> NameB)}

\* mappings neither accepts: the empty one, a name starting with a digit, a
\* path with "..", and mappings with one entry of either kind
BadMappings ==
    {<<>>, K1A :> PathA, K1A :> NameA, KA :> PathUp,
     (KA :> PathA) @@ (KB :> NameB), (KA :> NameA) @@ (KB :> PathB)}

Mappings == SSMMappings \cup AzureMappings \cup BadMappings

\* mappings the loaders accept in which two names share one identifier: the
\* loaders validate each entry by itself and compare no two entries
SharedMappings ==
    {(KA :> PathA) @@ (KB :> PathA), (KA :> NameA) @@ (KB :> NameA)}

\* what the store answers
Outcome(tag) ==
    CASE tag = "notfound" -> NotFound
      [] tag = "found1" -> Found(<<"1">>)
      [] tag = "found2" -> Found(<<"2">>)
      [] tag = "error" -> AdapterError
      [] tag = "auth" -> AuthError

\* a store answering ta for the identifiers of A and tb for those of B
StoreOf(ta, tb) ==
    [id \in Identifiers |->
        IF id \in {PathB, NameB} THEN Outcome(tb) ELSE Outcome(ta)]

\* the store calls that fail: "ok" is no failure
FailsOf(ta, tb) ==
    LET tag(id) == IF id \in {PathB, NameB} THEN tb ELSE ta
    IN  [id \in {i \in Identifiers : tag(i) # "ok"} |-> Outcome(tag(id))]

\* a .env file with a line that has no "="
BadFile == <<"A", EQ, "1", LF, "F", "O", "O", LF>>

\* the .env file before the run: absent, or the text with permission bits
\* 0600 or 0644
NoFileInput == [text |-> <<>>, info |-> NoFile]
FileInputs(texts) ==
    {[text |-> t, info |-> FileWith(perm)] : t \in texts, perm \in {384, 420}}

MainRun(m, az, pm, st, fails, sg, fl, f, q) ==
    [mode |-> m, azure |-> az, paramMap |-> pm, store |-> st,
     putFails |-> fails, single |-> sg, file |-> fl, force |-> f,
     quotes |-> q]

PullRuns ==
    {MainRun("pull", az, pm, StoreOf(ta, tb), <<>>, NoSingle, fl, FALSE, q) :
        az \in BOOLEAN, pm \in Mappings,
        ta \in {"notfound", "found1", "error", "auth"},
        tb \in {"notfound", "found2", "error", "auth"},
        fl \in {NoFileInput} \cup FileInputs({UserFile(KA :> <<"1">>)}),
        q \in BOOLEAN}

PushFileRuns ==
    {MainRun("push", az, pm, StoreOf("found2", tb), FailsOf(fa, fb), NoSingle,
             fl, FALSE, FALSE) :
        az \in BOOLEAN, pm \in Mappings \cup SharedMappings,
        tb \in {"notfound", "found2"},
        fa \in {"ok", "error", "auth"}, fb \in {"ok", "error", "auth"},
        fl \in {NoFileInput, [text |-> BadFile, info |-> FileWith(384)]}
               \cup {[text |-> UserFile(e), info |-> FileWith(384)] :
                        e \in PartialMaps(EnvKeys, {<<"1">>})
                              \cup {KA :> <<>>,
                                    (KA :> <<"1">>) @@ (KB :> <<>>)}}}

Singles ==
    {[key |-> k, value |-> v, id |-> id] :
        k \in {KA, K1A, <<>>}, v \in {<<"1">>, <<>>},
        id \in {PathA, NameA, PathUp, <<>>}} \ {NoSingle}

PushSingleRuns ==
    {MainRun("push", az, KA :> PathA, StoreOf("found2", "notfound"),
             FailsOf(fa, "ok"), sg, NoFileInput, FALSE, FALSE) :
        az \in BOOLEAN, fa \in {"ok", "error", "auth"}, sg \in Singles}

SyncRuns ==
    {MainRun("sync", az, pm, StoreOf(ta, tb), <<>>, NoSingle, fl, f, q) :
        az \in BOOLEAN, pm \in Mappings,
        ta \in {"notfound", "found1", "found2", "error", "auth"},
        tb \in {"notfound", "found2", "error"},
        fl \in {NoFileInput, [text |-> BadFile, info |-> FileWith(384)]}
               \cup FileInputs({UserFile(e) :
                                  e \in PartialMaps({KA, KC}, {<<"1">>})}),
        f \in BOOLEAN, q \in BOOLEAN}

MainRuns == PullRuns \cup PushFileRuns \cup PushSingleRuns \cup SyncRuns

MainInit ==
    /\ \E run \in MainRuns :
          /\ mode = run.mode
          /\ azure = run.azure
          /\ paramMap = run.paramMap
          /\ store = run.store
          /\ putFails = run.putFails
          /\ single = run.single
          /\ file = run.file.text
          /\ fileInfo = run.file.info
          /\ force = run.force
          /\ quotes = run.quotes
    /\ file0 = file
    /\ local0 = <<>>
    /\ pc = "start"
    /\ localEnvVars = <<>>
    /\ ssmEnvVars = <<>>
    /\ differences = <<>>
    /\ toUpdate = <<>>
    /\ idx = 0
    /\ response = <<>>
    /\ out = <<>>
    /\ writes = 0
    /\ invalids = 0
    /\ exitCode = -1
    /\ calls = <<>>
    /\ parsed = NotParsed
    /\ pass = 0
    /\ eof = FALSE
    /\ filename = DefaultEnvFile

MainNext ==
    \/ Pull
    \/ PushSingle
    \/ PushFile
    \/ SyncFetch
    \/ SyncCompare
    \/ PromptYes
    \/ PromptNo
    \/ PromptAll
    \/ PromptCancel
    \/ PromptInvalid

MainSpec == MainInit /\ [][MainNext]_vars

----------------------------------------------------------------------------
(* The env-file codec as functions: writeEnvFile, then readEnvFile *)

\* the longest value of a one-key snapshot
MaxValueLen == 3

\* the most lines of a hand-written file
MaxLines == 3

\* the invocations that may follow the first one
MaxPass == 1

CodecAlphabet == {BS, DQ, SQ, "n", "r", "t", LF, CR, TAB, SP}

\* the strings over A of length n, and of length at most n
RECURSIVE StringsOfLen(_, _)
StringsOfLen(A, n) ==
    IF n = 0 THEN {<<>>}
    ELSE {<<c>> \o w : c \in A, w \in StringsOfLen(A, n - 1)}

StringsUpTo(A, n) == UNION {StringsOfLen(A, k) : k \in 0..n}

KAB == <<"A", "B">>

\* snapshots of one key with every value, and snapshots of up to three
\* keys with a few values
CodecSnapshots ==
    {[k \in {KA} |-> v] : v \in StringsUpTo(CodecAlphabet, MaxValueLen)}
    \cup PartialMaps({KA, KB, KAB}, {<<>>, <<"n">>, <<SP, BS>>})

\* the lines a hand-written file is made of
CodecLines ==
    {<<>>, <<SP, SP>>, <<HASH, SP, "x">>, <<SP, HASH, "B">>,
     <<"A", EQ, "1">>, <<"B">>, <<SP, "B", SP, CR>>, <<"B", SP, "A">>,
     <<"A", EQ, "1", EQ, "2">>, <<"A", EQ, EQ>>, <<"A", EQ>>,
     <<SP, "A", SP, EQ, SP, "2", SP>>}

\* the lines KEY=VALUE of one key, the value a string of the alphabet, bare
\* or between double or single quotes
ValueLines ==
    {KA \o <<EQ>> \o q \o v \o q :
        q \in {<<>>, <<DQ>>, <<SQ>>},
        v \in StringsUpTo(CodecAlphabet, MaxValueLen)}

\* the lines joined with newlines
RECURSIVE JoinLines(_)
JoinLines(ls) ==
    IF ls = <<>> THEN <<>>
    ELSE IF Len(ls) = 1 THEN ls[1]
    ELSE ls[1] \o <<LF>> \o JoinLines(Tail(ls))

CodecTexts ==
    UNION {{JoinLines(ls) : ls \in [1..n -> CodecLines]} : n \in 1..MaxLines}
    \cup ValueLines

CodecInit ==
    /\ mode = "codec"
    /\ \/ /\ pc = "snapshot"
          /\ localEnvVars \in CodecSnapshots
          /\ quotes \in BOOLEAN
          /\ file = <<>>
       \/ /\ pc = "text"
          /\ localEnvVars = <<>>
          /\ quotes = FALSE
          /\ file \in CodecTexts
    /\ file0 = file
    /\ local0 = localEnvVars
    /\ parsed = NotParsed
    /\ writes = 0
    /\ fileInfo = NoFile
    /\ paramMap = <<>>
    /\ store = <<>>
    /\ force = FALSE
    /\ ssmEnvVars = <<>>
    /\ differences = <<>>
    /\ toUpdate = <<>>
    /\ idx = 0
    /\ response = <<>>
    /\ out = <<>>
    /\ invalids = 0
    /\ exitCode = -1
    /\ azure = FALSE
    /\ single = NoSingle
    /\ putFails = <<>>
    /\ calls = <<>>
    /\ pass = 0
    /\ eof = FALSE
    /\ filename = DefaultEnvFile

\* writeEnvFile(filename, localEnvVars, quotes)
Serialize ==
    /\ pc = "snapshot"
    /\ \E order \in RangeOrders(localEnvVars) :
          file' = writeEnvFileFrom(localEnvVars, quotes, order)
    /\ fileInfo' = writeEnvFileInfo(fileInfo)
    /\ writes' = writes + 1
    /\ pc' = "written"
    /\ UNCHANGED <<paramMap, store, file0, local0, force, quotes,
                   localEnvVars, ssmEnvVars, differences, toUpdate, idx,
                   response, out, invalids, exitCode, calls>>
    /\ UNCHANGED <<mode, azure, single, putFails, parsed, pass, eof,
                   filename>>

\* readEnvFile(filename)
Parse ==
    /\ pc \in {"written", "text"}
    /\ parsed' = readEnvFile(file)
    /\ pc' = "parsed"
    /\ UNCHANGED <<paramMap, store, file, file0, local0, force, quotes,
                   localEnvVars, ssmEnvVars, differences, toUpdate, idx,
                   response, out, writes, invalids, exitCode, calls,
                   fileInfo>>
    /\ UNCHANGED <<mode, azure, single, putFails, pass, eof, filename>>

CodecNext ==
    \/ Serialize
    \/ Parse

CodecSpec == CodecInit /\ [][CodecNext]_vars

----------------------------------------------------------------------------
(* The mapping loader and the file path check as functions *)

\* a path-style identifier of n characters: "/" and then the letter a
LongPath(n) == [i \in 1..n |-> IF i = 1 THEN "/" ELSE "a"]

\* a name-style identifier of n characters
LongName(n) == [i \in 1..n |-> "a"]

\* local variable names in a mapping file
LoaderNames ==
    {<<>>, KA, <<"_">>, <<"a", "_", "9">>, <<"Z", "z", "0">>, <<"9", "A">>,
     <<"A", "-">>, <<"A", SP>>, <<"A", ".">>, <<"A", "/">>, <<"@">>, <<"[">>,
     <<"^">>, <<"{">>, <<"A", ":">>, <<"A", "!">>}

\* remote identifiers in a mapping file
LoaderIds ==
    {<<>>, <<"/">>, PathA, <<"/", "A", "-", "z", "_", "0", ".", "9", "/", "Z">>,
     NameA, <<"a", "/", "b">>, PathUp, <<"/", "a", "/", ".", ".", "/", "b">>,
     <<"/", "a", ".", ".", "b">>, <<"/", ".">>, <<"/", "a", SP, "b">>,
     <<"/", "a", ":">>, <<"/", "@">>, <<"/", "[">>, <<"/", "^">>, <<"/", "{">>,
     <<"/", "!">>, <<"A", "-", "z", "0", "-", "9", "Z">>, <<"-">>,
     <<"a", "_", "b">>, <<"a", ".", "b">>, <<"a", SP, "b">>, <<"a", "@">>,
     LongPath(2048), LongPath(2049), LongName(127), LongName(128)}

\* mapping files: the empty one, every one-entry mapping, and two-entry
\* mappings of A and B
LoaderMappings ==
    {<<>>}
    \cup {n :> id : n \in LoaderNames, id \in LoaderIds}
    \cup {(KA :> ida) @@ (KB :> idb) :
              ida \in {PathA, NameA, PathUp},
              idb \in {PathB, NameB, <<"/", "a", "/", ".", ".", "/", "b">>,
                        <<"/", "!">>}}
    \cup {(KA :> PathA) @@ (n :> PathB) : n \in {<<"9", "A">>, <<"_">>}}

\* values of --map and --env
LoaderPaths ==
    {<<>>, <<"m">>, DefaultEnvFile, <<".", "/", "m">>, <<".", ".", "/", "m">>,
     <<"a", "/", ".", ".", "/", "m">>, <<"a", ".", ".", "b">>,
     <<SP, ".", ".", SP>>, <<".", ".">>, <<SP>>, <<".", SP, ".">>,
     <<"m", NUL>>, <<NUL>>, <<SP, NUL, "m">>, <<"a", "/", "b", ".", "m">>}

LoaderInit ==
    /\ mode = "load"
    /\ \/ /\ pc = "map"
          /\ \/ paramMap \in LoaderMappings /\ filename = <<"m">>
             \/ paramMap = (KA :> PathA) /\ filename \in LoaderPaths
          /\ azure \in BOOLEAN
       \/ /\ pc = "path"
          /\ paramMap = <<>>
          /\ filename \in LoaderPaths
          /\ azure = FALSE
    /\ file = <<>>
    /\ file0 = file
    /\ localEnvVars = <<>>
    /\ local0 = <<>>
    /\ quotes = FALSE
    /\ parsed = NotParsed
    /\ writes = 0
    /\ fileInfo = NoFile
    /\ store = <<>>
    /\ force = FALSE
    /\ ssmEnvVars = <<>>
    /\ differences = <<>>
    /\ toUpdate = <<>>
    /\ idx = 0
    /\ response = <<>>
    /\ out = <<>>
    /\ invalids = 0
    /\ exitCode = -1
    /\ single = NoSingle
    /\ putFails = <<>>
    /\ calls = <<>>
    /\ pass = 0
    /\ eof = FALSE

\* loadParameterMap(filename), or loadParameterMapRaw(filename) and
\* validateAzureParameterMap under --azure; the file holds paramMap
LoadParameterMap ==
    /\ pc = "map"
    /\ IF ~validateFilePath(filename)
       THEN /\ pc' = "rejected"
            /\ out' = <<[t |-> "patherror"]>>
       ELSE IF ~MappingAccepted(paramMap, azure)
       THEN /\ pc' = "rejected"
            /\ out' = <<[t |-> "maperror"]>>
       ELSE /\ pc' = "loaded"
            /\ out' = out
    /\ UNCHANGED <<paramMap, store, file, file0, local0, force, quotes,
                   localEnvVars, ssmEnvVars, differences, toUpdate, idx,
                   response, writes, invalids, exitCode, calls, fileInfo>>
    /\ UNCHANGED given

\* the check readEnvFile and writeEnvFile make of their filename
CheckFilePath ==
    /\ pc = "path"
    /\ IF ~validateFilePath(filename)
       THEN /\ pc' = "rejected"
            /\ out' = <<[t |-> "patherror"]>>
       ELSE /\ pc' = "checked"
            /\ out' = out
    /\ UNCHANGED <<paramMap, store, file, file0, local0, force, quotes,
                   localEnvVars, ssmEnvVars, differences, toUpdate, idx,
                   response, writes, invalids, exitCode, calls, fileInfo>>
    /\ UNCHANGED given

LoaderNext ==
    \/ LoadParameterMap
    \/ CheckFilePath

LoaderSpec == LoaderInit /\ [][LoaderNext]_vars

----------------------------------------------------------------------------
(* Sync under --force, run again on the file it wrote *)

ResyncAlphabet == {BS, DQ, SQ, "n", SP, FF, EQ}

\* the remote values of A
ResyncValues == StringsUpTo(ResyncAlphabet, MaxValueLen)

ResyncInit ==
    /\ mode = "sync"
    /\ force = TRUE
    /\ azure = FALSE
    /\ quotes \in BOOLEAN
    /\ paramMap = (KA :> PathA) @@ (KB :> PathB)
    /\ \E v \in ResyncValues :
          /\ \E b \in {NotFound, Found(<<"2">>)} :
                store = (PathA :> Found(v)) @@ (PathB :> b)
          /\ file \in {UserFile(<<>>), writeEnvFile(KA :> v, TRUE)}
    /\ file0 = file
    /\ local0 = <<>>
    /\ pc = "start"
    /\ localEnvVars = <<>>
    /\ ssmEnvVars = <<>>
    /\ differences = <<>>
    /\ toUpdate = <<>>
    /\ idx = 0
    /\ response = <<>>
    /\ out = <<>>
    /\ writes = 0
    /\ invalids = 0
    /\ exitCode = -1
    /\ single = NoSingle
    /\ putFails = <<>>
    /\ calls = <<>>
    /\ fileInfo = FileWith(OwnerReadWrite)
    /\ parsed = NotParsed
    /\ pass = 0
    /\ eof = FALSE
    /\ filename = DefaultEnvFile

\* the program is started again with the same flags after a run that
\* succeeded: the store and the file are as the run left them
Rerun ==
    /\ pc = "done"
    /\ exitCode = 0
    /\ pass < MaxPass
    /\ pass' = pass + 1
    /\ pc' = "start"
    /\ exitCode' = -1
    /\ file0' = file
    /\ local0' = <<>>
    /\ localEnvVars' = <<>>
    /\ ssmEnvVars' = <<>>
    /\ differences' = <<>>
    /\ toUpdate' = <<>>
    /\ idx' = 0
    /\ response' = <<>>
    /\ out' = <<>>
    /\ writes' = 0
    /\ invalids' = 0
    /\ calls' = <<>>
    /\ UNCHANGED <<paramMap, store, file, force, quotes, fileInfo, mode, azure,
                   single, putFails, parsed, eof, filename>>

ResyncNext ==
    \/ SyncFetch
    \/ SyncCompare
    \/ Rerun

ResyncSpec == ResyncInit /\ [][ResyncNext]_vars

----------------------------------------------------------------------------
(* Interactive sync on a terminal whose input may end *)

TerminalInit ==
    /\ mode = "sync"
    /\ force = FALSE
    /\ azure = FALSE
    /\ quotes \in BOOLEAN
    /\ paramMap \in {MappingOf({KA}), MappingOf({KA, KB})}
    /\ store \in [Range(paramMap) ->
                    {NotFound, Found(<<"1">>), Found(<<"2">>)}]
    /\ \E env \in PartialMaps({KA, KB}, {<<"1">>}) : file = UserFile(env)
    /\ file0 = file
    /\ local0 = <<>>
    /\ pc = "start"
    /\ localEnvVars = <<>>
    /\ ssmEnvVars = <<>>
    /\ differences = <<>>
    /\ toUpdate = <<>>
    /\ idx = 0
    /\ response = <<>>
    /\ out = <<>>
    /\ writes = 0
    /\ invalids = 0
    /\ exitCode = -1
    /\ single = NoSingle
    /\ putFails = <<>>
    /\ calls = <<>>
    /\ fileInfo = FileWith(OwnerReadWrite)
    /\ parsed = NotParsed
    /\ pass = 0
    /\ eof = FALSE
    /\ filename = DefaultEnvFile

\* standard input ends: it was empty, or closed, or the user typed the
\* end-of-input key
CloseInput ==
    /\ ~eof
    /\ pc # "done"
    /\ eof' = TRUE
    /\ UNCHANGED <<paramMap, store, file, file0, local0, force, quotes, pc,
                   localEnvVars, ssmEnvVars, differences, toUpdate, idx,
                   response, out, writes, invalids, exitCode, mode, azure,
                   single, putFails, calls, fileInfo, parsed, pass, filename>>

\* one round of the prompt loop at end-of-input: fmt.Scanln returns an
\* error, response is set to "", the switch takes its default branch and
\* the loop prompts for the same difference again
PromptEOF ==
    /\ pc = "prompt"
    /\ eof
    /\ response' = <<>>
    /\ idx' = AfterInvalid(idx)
    /\ UNCHANGED <<paramMap, store, file, file0, local0, force, quotes, pc,
                   localEnvVars, ssmEnvVars, differences, toUpdate, writes,
                   invalids, exitCode, out, calls, fileInfo>>
    /\ UNCHANGED given

\* a response is read and acted on
PromptRead ==
    \/ PromptYes
    \/ PromptNo
    \/ PromptAll
    \/ PromptCancel
    \/ PromptInvalid

TerminalNext ==
    \/ SyncFetch
    \/ SyncCompare
    \/ PromptRead
    \/ PromptEOF
    \/ CloseInput

\* the program runs on: it does not rest before the fetch (SyncFetch is
\* enabled exactly while pc = "start") nor before the comparison
\* (SyncCompare, pc = "fetched")
ProgramRuns ==
    /\ []<>(pc # "start")
    /\ []<>(pc # "fetched")

\* a user at an open terminal goes on answering: the prompt does not wait
\* for ever while the input is open
UserAnswers == []<>(pc # "prompt" \/ eof)

\* the run is a single goroutine that nothing suspends; a round of the prompt
\* loop at end-of-input is taken as soon as it is due (fmt.Scanln does not
\* block at end-of-input)
TerminalSpec ==
    /\ TerminalInit
    /\ [][TerminalNext]_vars
    /\ ProgramRuns
    /\ UserAnswers
    /\ WF_vars(PromptEOF)

----------------------------------------------------------------------------
(* Properties *)

\* syncParameters has compared the snapshots
Compared == pc = "prompt" \/ (pc = "done" /\ exitCode = 0)

\* the run ended successfully
Succeeded == pc = "done" /\ exitCode = 0

Printed(t) == \E i \in 1..Len(out) : out[i].t = t

DiffKeys(ds) == {ds[i].Key : i \in 1..Len(ds)}

\* the adapter finds a value for the mapped key k
FoundRemotely(k) == store[paramMap[k]].kind = "found"
RemoteValue(k) == store[paramMap[k]].val

\* the lines of a text, without the line terminators
Lines(text) == LET ls == Split(text, LF) IN SubSeq(ls, 1, Len(ls) - 1)

\* the text holds the line writeEnvFile prints for key and value
HasLine(text, key, value, alwaysQuote) ==
    \E i \in 1..Len(Lines(text)) :
        Lines(text)[i] \o <<LF>> = EnvLine(key, value, alwaysQuote)

\* every mapped key found remotely is present locally with the same value
SnapshotsAgree ==
    \A k \in DOMAIN paramMap :
        FoundRemotely(k) => (k \in DOMAIN local0 /\ local0[k] = RemoteValue(k))

\* C1: when every mapped key that is found remotely has the same value
\* locally (keys that exist only locally included), sync computes no
\* difference, reports "in sync", never calls writeEnvFile and leaves the
\* text of the file as it was.
C1_InSyncNoWrite ==
    (Compared /\ SnapshotsAgree) =>
        /\ differences = <<>>
        /\ Succeeded
        /\ out[Len(out)] = [t |-> "insync"]
        /\ ~Printed("updated")
        /\ writes = 0
        /\ file = file0

\* the scenario of the spec: mapping {A, B}, the file holds A=1 only, the
\* remote side resolves A=1 only
C1_Witness ==
    /\ Succeeded
    /\ SnapshotsAgree
    /\ DOMAIN paramMap = {KA, KB}
    /\ local0 = [k \in {KA} |-> <<"1">>]
    /\ ssmEnvVars = [k \in {KA} |-> <<"1">>]
    /\ store[paramMap[KB]] = NotFound
    /\ Printed("insync")

\* C2: the difference list holds exactly one record for each mapped name
\* that is found remotely and is absent locally or has another value locally,
\* with the two values and the identifier; a name present locally and not
\* found remotely, and a name with equal values, have no record.
C2_DifferenceSet ==
    Compared =>
        LET expected ==
                {k \in DOMAIN paramMap :
                    /\ FoundRemotely(k)
                    /\ (k \notin DOMAIN local0 \/ local0[k] # RemoteValue(k))}
        IN  /\ DiffKeys(differences) = expected
            /\ Len(differences) = Cardinality(expected)
            /\ \A i \in 1..Len(differences) :
                  LET d == differences[i]
                  IN  /\ d.SSMVal = RemoteValue(d.Key)
                      /\ d.SSMPath = paramMap[d.Key]
                      /\ d.Key \in DOMAIN local0 => d.LocalVal = local0[d.Key]

\* one key differs, one is equal on both sides, one exists only locally
C2_Witness ==
    /\ Compared
    /\ Len(differences) = 1
    /\ \E k \in DOMAIN paramMap :
          k \in DOMAIN local0 /\ ~FoundRemotely(k)
    /\ \E k \in DOMAIN paramMap :
          /\ FoundRemotely(k)
          /\ k \in DOMAIN local0
          /\ local0[k] = RemoteValue(k)

\* C3: a difference for a key that is absent locally is reported with the
\* "not set" marker, and a difference for a key that is present locally, the
\* empty string included, is reported with its local value and not with the
\* marker; applying a difference for an absent key inserts the key into the
\* file.
C3_LocalAbsentFlag ==
    Compared =>
        \A i \in 1..Len(differences) :
            LET d == differences[i]
                shown == {out[j].local : j \in {j \in 1..Len(out) :
                             out[j].t = "diff" /\ out[j].key = d.Key}}
            IN  /\ IF d.Key \in DOMAIN local0
                   THEN shown = {local0[d.Key]}
                   ELSE shown = {NotSetText}
                /\ (Succeeded /\ d.Key \notin DOMAIN local0
                    /\ d.Key \in DiffKeys(toUpdate)) =>
                      HasLine(file, d.Key, d.SSMVal, quotes)

\* C4: a mapped key found remotely with the empty string is in the remote
\* snapshot with that value and is a difference when the key is absent
\* locally or has a non-empty local value; a key not found remotely is not
\* in the remote snapshot and is no difference.
C4_EmptyIsNotMissing ==
    Compared =>
        \A k \in DOMAIN paramMap :
            /\ (FoundRemotely(k) /\ RemoteValue(k) = <<>>) =>
                  /\ k \in DOMAIN ssmEnvVars
                  /\ ssmEnvVars[k] = <<>>
                  /\ (k \notin DOMAIN local0 \/ local0[k] # <<>>) =>
                        k \in DiffKeys(differences)
            /\ store[paramMap[k]] = NotFound =>
                  /\ k \notin DOMAIN ssmEnvVars
                  /\ k \notin DiffKeys(differences)

\* A is found with the empty value and differs from the local "1"; B is not
\* found and is present locally
C4_Witness ==
    /\ Compared
    /\ DOMAIN paramMap = {KA, KB}
    /\ store[paramMap[KA]] = Found(<<>>)
    /\ store[paramMap[KB]] = NotFound
    /\ local0 = [k \in {KA, KB} |-> <<"1">>]
    /\ DiffKeys(differences) = {KA}

\* C5: under --force no prompt is issued and the decision set is the whole
\* difference list; after the sync the file holds the line of the remote
\* value for every difference key and the count printed is the number of
\* differences.
C5_ForceAppliesAll ==
    force =>
        /\ pc # "prompt"
        /\ idx = 0
        /\ response = <<>>
        /\ (Succeeded /\ differences # <<>>) =>
              /\ toUpdate = differences
              /\ writes = 1
              /\ \A k \in DiffKeys(differences) :
                    HasLine(file, k, RemoteValue(k), quotes)
              /\ out[Len(out)] = [t |-> "updated", n |-> Len(differences)]

\* the scenario of the spec: mapping {A, B}, the file holds A=1, the remote
\* side has other values for A and B; the file then holds both, "updated 2"
C5_Witness ==
    /\ force
    /\ Succeeded
    /\ DOMAIN paramMap = {KA, KB}
    /\ local0 = [k \in {KA} |-> <<"1">>]
    /\ store[paramMap[KA]] = Found(<<"2">>)
    /\ store[paramMap[KB]] = Found(<<"1">>)
    /\ ~quotes
    /\ file = <<"A", EQ, "2", LF, "B", EQ, "1", LF>>
    /\ out[Len(out)] = [t |-> "updated", n |-> 2]

\* C6: when a non-empty decision set D is applied, the snapshot written is
\* the snapshot read before the sync with each key of D set to its remote
\* value: the file holds exactly one line per key of that snapshot, every
\* other key keeps its value, no key is removed, and the count printed is
\* the size of D.
C6_WrittenSnapshot ==
    (Succeeded /\ toUpdate # <<>>) =>
        LET D == DiffKeys(toUpdate)
            expected == [k \in DOMAIN local0 \cup D |->
                            IF k \in D THEN RemoteValue(k) ELSE local0[k]]
        IN  /\ Len(toUpdate) = Cardinality(D)
            /\ localEnvVars = expected
            /\ writes = 1
            /\ Len(Lines(file)) = Cardinality(DOMAIN expected)
            /\ \A k \in DOMAIN expected :
                  HasLine(file, k, expected[k], quotes)
            /\ out[Len(out)] = [t |-> "updated", n |-> Len(toUpdate)]

\* one of several differences is applied, another was skipped, and the file
\* also holds a key that is not in the mapping
C6_Witness ==
    /\ Succeeded
    /\ ~force
    /\ Len(differences) >= 2
    /\ Len(toUpdate) = 1
    /\ \E k \in DOMAIN local0 : k \notin DOMAIN paramMap
    /\ \E k \in DiffKeys(differences) \ DiffKeys(toUpdate) :
          k \in DOMAIN local0 /\ localEnvVars[k] = local0[k]

YesWords == {<<"y">>, <<"y", "e", "s">>}
NoWords == {<<"n">>, <<"n", "o">>}
AllWords == {<<"a">>, <<"a", "l", "l">>}
CancelWords == {<<"c">>, <<"c", "a", "n", "c", "e", "l">>}

NoDuplicates(seq) ==
    \A i, j \in 1..Len(seq) : i # j => seq[i] # seq[j]

\* every element of tu is one of the first n differences
AmongFirst(tu, ds, n) ==
    \A j \in 1..Len(tu) : \E q \in 1..n : ds[q] = tu[j]

\* C7: "all" at the i-th difference ends the prompting at once, and the
\* decision set is what was accepted before i, then the i-th difference and
\* every later one, no difference twice.
C7_AllSelectsRemaining ==
    [][(pc = "prompt" /\ response' \in AllWords) =>
          /\ pc' = "done"
          /\ idx' = idx
          /\ AmongFirst(toUpdate, differences, idx - 1)
          /\ toUpdate' = toUpdate \o <<differences[idx]>> \o
                         SubSeq(differences, idx + 1, Len(differences))
          /\ NoDuplicates(toUpdate')]_vars

\* the first difference was skipped, the second accepted, and "all" was
\* answered at the third
C7_Witness ==
    /\ pc = "done"
    /\ response \in AllWords
    /\ Len(differences) = 3
    /\ idx = 3
    /\ toUpdate = <<differences[2], differences[3]>>

\* C8: "cancel" at the i-th difference ends the prompting at once; the
\* decision set is what was accepted before i, without the i-th and the
\* later differences, and what was accepted is still written to the file.
C8_CancelKeepsAccepted ==
    [][(pc = "prompt" /\ response' \in CancelWords) =>
          /\ pc' = "done"
          /\ exitCode' = 0
          /\ idx' = idx
          /\ toUpdate' = toUpdate
          /\ AmongFirst(toUpdate', differences, idx - 1)
          /\ \A j \in idx..Len(differences) :
                \A q \in 1..Len(toUpdate') : toUpdate'[q] # differences[j]
          /\ IF toUpdate = <<>>
             THEN writes' = writes /\ file' = file
             ELSE /\ writes' = writes + 1
                  /\ \A q \in 1..Len(toUpdate) :
                        HasLine(file', toUpdate[q].Key, toUpdate[q].SSMVal,
                                quotes)]_vars

\* the first difference was accepted, "cancel" was answered at the second
\* of three, and the file was written with the accepted value
C8_Witness ==
    /\ pc = "done"
    /\ response \in CancelWords
    /\ Len(differences) = 3
    /\ idx = 2
    /\ toUpdate = <<differences[1]>>
    /\ writes = 1
    /\ HasLine(file, differences[1].Key, differences[1].SSMVal, quotes)
    /\ ~HasLine(file, differences[2].Key, differences[2].SSMVal, quotes)

\* C9: a response other than y, yes, n, no, a, all, c, cancel changes neither
\* the decision set nor the position: the same difference is prompted again.
C9_InvalidReprompts ==
    [][(pc = "prompt"
        /\ response' \notin YesWords \cup NoWords \cup AllWords \cup CancelWords)
       => /\ pc' = "prompt"
          /\ idx' = idx
          /\ toUpdate' = toUpdate
          /\ differences' = differences
          /\ localEnvVars' = localEnvVars
          /\ file' = file
          /\ writes' = writes]_vars

\* an empty response was read at the second difference after the first was
\* accepted
C9_Witness ==
    /\ pc = "prompt"
    /\ invalids = 1
    /\ response = <<>>
    /\ idx = 2
    /\ toUpdate = <<differences[1]>>

\* the position of a difference in the list
PositionIn(ds, d) == CHOOSE q \in 1..Len(ds) : ds[q] = d

C10_Sorted ==
    Compared =>
        /\ \A i, j \in 1..Len(differences) :
              i < j => StrLess(differences[i].Key, differences[j].Key)
        /\ AmongFirst(toUpdate, differences, Len(differences))
        /\ \A i, j \in 1..Len(toUpdate) :
              i < j => PositionIn(differences, toUpdate[i])
                       < PositionIn(differences, toUpdate[j])
        /\ pc = "prompt" =>
              /\ idx \in 1..Len(differences)
              /\ AmongFirst(toUpdate, differences, idx - 1)

C10_Step ==
    /\ (pc = "fetched" /\ pc' = "prompt") => idx' = 1
    /\ pc = "prompt" =>
          /\ differences' = differences
          /\ idx' \in {idx, idx + 1}
          /\ response' \in YesWords =>
                /\ toUpdate' = Append(toUpdate, differences[idx])
                /\ pc' = "prompt" => idx' = idx + 1
          /\ response' \in NoWords =>
                /\ toUpdate' = toUpdate
                /\ pc' = "prompt" => idx' = idx + 1

\* C10: the difference list is sorted by name ascending without a repeated
\* name, the prompts follow that order, yes accepts and no skips the
\* difference prompted and moves to the next one, and the decision set is a
\* duplicate-free subsequence of the difference list.
C10_SortedPromptOrder == []C10_Sorted /\ [][C10_Step]_vars

\* three differences, the first skipped, the second accepted, the third
\* being prompted
C10_Witness ==
    /\ pc = "prompt"
    /\ Len(differences) = 3
    /\ idx = 3
    /\ response \in YesWords
    /\ toUpdate = <<differences[2]>>

\* readEnvFile has parsed the text writeEnvFile wrote for the snapshot
RoundTripped == pc = "parsed" /\ writes = 1

\* v holds no backslash immediately followed by n, r or t
NoBackslashLetter(v) ==
    \A i \in 1..(Len(v) - 1) : ~(v[i] = BS /\ v[i + 1] \in {"n", "r", "t"})

\* C11 as stated: for every snapshot over the alphabet (backslash, quotes,
\* n, r, t, newline, carriage return, tab, space), parsing the text written
\* with alwaysQuote=true returns exactly the snapshot.
C11_RoundTrip ==
    (RoundTripped /\ quotes) =>
        (~parsed.err /\ parsed.envVars = localEnvVars)

\* C11 amended: parsing the text written with alwaysQuote=true returns
\* exactly the snapshot when no value holds a backslash immediately followed
\* by n, r or t.
C11_RoundTripAmended ==
    (/\ RoundTripped
     /\ quotes
     /\ \A k \in DOMAIN localEnvVars : NoBackslashLetter(localEnvVars[k])) =>
        (~parsed.err /\ parsed.envVars = localEnvVars)

\* a value of backslash, double quote and newline came back as it was
C11_Witness ==
    /\ RoundTripped
    /\ quotes
    /\ localEnvVars = [k \in {KA} |-> <<BS, DQ, LF>>]
    /\ file = <<"A", EQ, DQ, BS, BS, BS, DQ, BS, "n", DQ, LF>>
    /\ parsed.envVars = localEnvVars

\* the key of a line of the file
KeyOfLine(line) == SubSeq(line, 1, IndexOf(line, EQ) - 1)

\* C12: the text written has exactly one line per key of the snapshot, the
\* keys ascend in byte order, and the text is the same for every order in
\* which the map is iterated.
C12_SortedKeys ==
    pc = "written" =>
        LET ls == Lines(file)
        IN  /\ Len(ls) = Cardinality(DOMAIN localEnvVars)
            /\ {KeyOfLine(ls[i]) : i \in 1..Len(ls)} = DOMAIN localEnvVars
            /\ \A i, j \in 1..Len(ls) :
                  i < j => StrLess(KeyOfLine(ls[i]), KeyOfLine(ls[j]))
            /\ file = writeEnvFile(localEnvVars, quotes)

\* three keys were written: A, then AB, then B
C12_Witness ==
    /\ pc = "written"
    /\ DOMAIN localEnvVars = {KA, KB, KAB}
    /\ Len(Lines(file)) = 3
    /\ KeyOfLine(Lines(file)[1]) = KA
    /\ KeyOfLine(Lines(file)[2]) = KAB
    /\ KeyOfLine(Lines(file)[3]) = KB

\* v holds a space, tab, newline, carriage return, quote or backslash
HasSpecial(v) == \E i \in 1..Len(v) : v[i] \in {SP, TAB, LF, CR, DQ, SQ, BS}

\* the escaped form of one character
EscapedChar(c) ==
    CASE c = BS -> <<BS, BS>>
      [] c = DQ -> <<BS, DQ>>
      [] c = LF -> <<BS, "n">>
      [] c = CR -> <<BS, "r">>
      [] c = TAB -> <<BS, "t">>
      [] OTHER -> <<c>>

Escaped(v) == Concat([i \in 1..Len(v) |-> EscapedChar(v[i])])

\* C13: needsQuoting(v) is true exactly when v holds one of space, tab,
\* newline, carriage return, double quote, single quote, backslash; the line
\* written for a key holds the value between double quotes with each
\* character escaped when alwaysQuote is set or needsQuoting(v), and the
\* value as it is otherwise.
C13_QuotedWhenNeeded ==
    pc = "written" =>
        \A k \in DOMAIN localEnvVars :
            LET v == localEnvVars[k]
                shown == IF quotes \/ HasSpecial(v)
                         THEN <<DQ>> \o Escaped(v) \o <<DQ>>
                         ELSE v
            IN  /\ needsQuoting(v) <=> HasSpecial(v)
                /\ Contains(<<LF>> \o file,
                            <<LF>> \o k \o <<EQ>> \o shown \o <<LF>>)

\* without --quotes, n is written bare and space-backslash quoted
C13_Witness ==
    /\ pc = "written"
    /\ ~quotes
    /\ localEnvVars = (KA :> <<"n">>) @@ (KB :> <<SP, BS>>)
    /\ file = <<"A", EQ, "n", LF, "B", EQ, DQ, SP, BS, BS, DQ, LF>>

\* the mapping is one the loader of the selected store accepts
GoodMapping ==
    paramMap \in (IF azure THEN AzureMappings ELSE SSMMappings)
                  \cup {m \in SharedMappings : (m[KA] = NameA) <=> azure}

\* the run is a bulk push
BulkPush == mode = "push" /\ single = NoSingle

\* the mapped names whose identifier the store finds
FoundKeys == {k \in DOMAIN paramMap : FoundRemotely(k)}

\* C14: in a pull where the store answers every mapped identifier with a
\* value or with "not found", every entry is fetched once, each name not
\* found gets a warning, the run succeeds, and the snapshot and the file
\* written hold exactly the names found, each with the value fetched.
C14_PullSkipsNotFound ==
    (/\ mode = "pull"
     /\ pc = "done"
     /\ GoodMapping
     /\ \A k \in DOMAIN paramMap :
           store[paramMap[k]].kind \in {"found", "notfound"}) =>
        /\ exitCode = 0
        /\ Len(calls) = Cardinality(DOMAIN paramMap)
        /\ {calls[i] : i \in 1..Len(calls)}
              = {GetCall(paramMap[k]) : k \in DOMAIN paramMap}
        /\ \A k \in DOMAIN paramMap \ FoundKeys :
              \E i \in 1..Len(out) : out[i] = [t |-> "warning", key |-> k]
        /\ ssmEnvVars = [k \in FoundKeys |-> RemoteValue(k)]
        /\ writes = 1
        /\ Len(Lines(file)) = Cardinality(FoundKeys)
        /\ \A k \in FoundKeys : HasLine(file, k, RemoteValue(k), quotes)
        /\ out[Len(out)] = [t |-> "generated", n |-> Cardinality(FoundKeys)]

\* A is not found, B is found with 2: the file written holds B only
C14_Witness ==
    /\ mode = "pull"
    /\ pc = "done"
    /\ ~azure
    /\ paramMap = (KA :> PathA) @@ (KB :> PathB)
    /\ store[PathA] = NotFound
    /\ store[PathB] = Found(<<"2">>)
    /\ ~quotes
    /\ file = <<"B", EQ, "2", LF>>
    /\ exitCode = 0

\* the adapter calls that got an error other than "not found"
FailedGets ==
    {i \in 1..Len(calls) :
        calls[i].op = "get" /\ store[calls[i].id].kind \in {"error", "auth"}}

\* C15: when a fetch of pull or sync gets an adapter error other than "not
\* found", the failing call is the last call, the run fails, there is no
\* remote snapshot, the file is not written, and the error printed names
\* the local variable of the failing entry and does not hold its identifier.
C15_AdapterErrorAborts ==
    (mode \in {"pull", "sync"} /\ pc = "done" /\ FailedGets # {}) =>
        /\ FailedGets = {Len(calls)}
        /\ exitCode = 1
        /\ ssmEnvVars = <<>>
        /\ writes = 0
        /\ file = file0
        /\ out[Len(out)].t = "fetcherror"
        /\ out[Len(out)].key \in DOMAIN paramMap
        /\ paramMap[out[Len(out)].key] = calls[Len(calls)].id
        /\ ~Contains(out[Len(out)].cause, calls[Len(calls)].id)

\* C16: after a run of pull or sync that wrote the .env file, the file has
\* no permission bit for group or others, whatever the file was before.
C16_OwnerOnlyAfterWrite ==
    (mode \in {"pull", "sync"} /\ writes > 0) =>
        (fileInfo.exists /\ fileInfo.perm % 64 = 0)

\* the names a bulk push owes a store call: the mapped names the local
\* snapshot holds
OwedNames == DOMAIN paramMap \cap DOMAIN local0

\* the calls are the calls owed for n names, each name once: the local value
\* at the mapped identifier
CallsOwedFor(n) ==
    \E o \in [1..n -> OwedNames] :
        /\ \A i, j \in 1..n : i # j => o[i] # o[j]
        /\ \A i \in 1..n : calls[i] = PutCall(paramMap[o[i]], local0[o[i]])

\* C17: the store calls of a bulk push are calls owed for mapped names the
\* local snapshot holds, no name twice, and a push that succeeds has made
\* the call of every such name and leaves at each identifier the value of
\* the last call at it; a mapped name the snapshot lacks and a local name
\* outside the mapping get no call.
C17_PushCallsMappedPresent ==
    BulkPush =>
        /\ Len(calls) <= Cardinality(OwedNames)
        /\ CallsOwedFor(Len(calls))
        /\ (pc = "done" /\ exitCode = 0) =>
              /\ Len(calls) = Cardinality(OwedNames)
              /\ \A i \in 1..Len(calls) :
                    (\A j \in (i + 1)..Len(calls) : calls[j].id # calls[i].id)
                        => store[calls[i].id] = Found(calls[i].val)

\* the mapping names A and B, the file holds A and C: one call, for A
C17_Witness ==
    /\ BulkPush
    /\ pc = "done"
    /\ exitCode = 0
    /\ DOMAIN paramMap = {KA, KB}
    /\ DOMAIN local0 = {KA, KC}
    /\ calls = <<PutCall(paramMap[KA], <<"1">>)>>

\* the store calls that failed
FailedPuts ==
    {i \in 1..Len(calls) :
        calls[i].op = "put" /\ calls[i].id \in DOMAIN putFails}

\* C18: when a store call of a bulk push fails, the failing call is the
\* last call, the run fails with an error, the value of every earlier call
\* is in the store, and the failing call's value is not.
C18_PushStopsNoRollback ==
    (BulkPush /\ pc = "done" /\ FailedPuts # {}) =>
        /\ FailedPuts = {Len(calls)}
        /\ exitCode = 1
        /\ out[Len(out)].t \in {"pusherror", "autherror"}
        /\ \A i \in 1..(Len(calls) - 1) :
              store[calls[i].id] = Found(calls[i].val)
        /\ store[calls[Len(calls)].id] # Found(calls[Len(calls)].val)

\* the first call succeeded and the second failed
C18_Witness ==
    /\ BulkPush
    /\ pc = "done"
    /\ exitCode = 1
    /\ Len(calls) = 2
    /\ calls[2].id \in DOMAIN putFails
    /\ store[calls[1].id] = Found(<<"1">>)

\* the input of the run fails validation or parsing
InvalidInput ==
    \/ (mode \in {"pull", "sync"} \/ BulkPush) /\ ~GoodMapping
    \/ (mode = "sync" \/ BulkPush) /\ file0 = BadFile
    \/ /\ mode = "push"
       /\ single # NoSingle
       /\ \/ single.key # KA
          \/ single.id # (IF azure THEN NameA ELSE PathA)

\* C19: in a run whose mapping is invalid or empty (pull, bulk push, sync),
\* whose .env file is malformed (bulk push, sync) or whose --key or
\* identifier is invalid (single push), no adapter call is ever made, the
\* file is not written and the run ends with exit code 1.
C19_ValidateBeforeRemote ==
    InvalidInput =>
        /\ calls = <<>>
        /\ writes = 0
        /\ file = file0
        /\ pc = "done" => exitCode = 1
        /\ pc \in {"start", "done"}

\* a pull whose mapping has a valid entry and one the SSM loader rejects
C19_Witness ==
    /\ mode = "pull"
    /\ ~azure
    /\ paramMap = (KA :> PathA) @@ (KB :> NameB)
    /\ store[PathA] = Found(<<"1">>)
    /\ pc = "done"
    /\ exitCode = 1
    /\ calls = <<>>
    /\ out = <<[t |-> "maperror"]>>

\* a line that is not blank, is no comment and has no "="
Malformed(line) ==
    LET t == TrimSpace(line)
    IN  t # <<>> /\ t[1] # HASH /\ \A i \in 1..Len(t) : t[i] # EQ

\* C20: parsing a text with a malformed line fails, the error gives the
\* 1-based number of the first such line, blank and comment lines counted,
\* and no snapshot is returned; a text without one parses.
C20_MalformedLineNumber ==
    (pc = "parsed" /\ writes = 0) =>
        LET ls == Split(file, LF)
            bad == {i \in 1..Len(ls) : Malformed(ls[i])}
        IN  IF bad = {} THEN ~parsed.err
            ELSE /\ parsed.err
                 /\ parsed.line \in bad
                 /\ \A i \in bad : parsed.line <= i
                 /\ parsed.envVars = <<>>

\* a comment, a valid line, then a line without "=": the error names line 3
C20_Witness ==
    /\ pc = "parsed"
    /\ file = <<HASH, SP, "x", LF, "A", EQ, "1", LF, "B">>
    /\ parsed = [err |-> TRUE, line |-> 3, envVars |-> <<>>]

\* the number of "=" in a line
Delimiters(line) == Cardinality({i \in 1..Len(line) : line[i] = EQ})

\* the lines of the text that are neither blank nor a comment, trimmed
EntryLines(text) ==
    LET ls == Split(text, LF)
    IN  {TrimSpace(ls[i]) : i \in 1..Len(ls)}
            \ ({<<>>} \cup {l \in {TrimSpace(ls[i]) : i \in 1..Len(ls)} :
                                l # <<>> /\ l[1] = HASH})

\* readEnvFile has parsed a hand-written text
ParsedText == pc = "parsed" /\ writes = 0

\* C21 as stated: parsing fails exactly when some line that is neither
\* blank nor a comment does not hold exactly one "=": a line without "="
\* fails, and so does a line with more than one.
C21_ExactlyOneDelimiter ==
    ParsedText =>
        (parsed.err <=> \E l \in EntryLines(file) : Delimiters(l) # 1)

\* C21 amended: parsing fails exactly when some line that is neither blank
\* nor a comment holds no "="; a line with more than one "=" is accepted and
\* split at the first, the rest of the line being the value.
C21_AtLeastOneDelimiter ==
    ParsedText =>
        /\ parsed.err <=> \E l \in EntryLines(file) : Delimiters(l) = 0
        /\ ~parsed.err =>
              \A l \in EntryLines(file) :
                  LET i == IndexOf(l, EQ)
                      key == TrimSpace(SubSeq(l, 1, i - 1))
                  IN  /\ key \in DOMAIN parsed.envVars
                      /\ \E m \in EntryLines(file) :
                            LET j == IndexOf(m, EQ)
                            IN  /\ TrimSpace(SubSeq(m, 1, j - 1)) = key
                                /\ parsed.envVars[key] =
                                      UnquoteValue(
                                          TrimSpace(SubSeq(m, j + 1, Len(m))))

\* the line A=1=2 gives A the value 1=2
C21_Witness ==
    /\ ParsedText
    /\ file = <<"A", EQ, "1", EQ, "2">>
    /\ parsed = [err |-> FALSE, line |-> 0,
                 envVars |-> (KA :> <<"1", EQ, "2">>)]
\* the letters and digits the names and identifiers of the loader runs use
Letters == {"A", "B", "Z", "a", "b", "m", "z"}
Digits == {"0", "9"}

\* ^[A-Za-z_][A-Za-z0-9_]*$
MatchesNameRule(n) ==
    /\ n # <<>>
    /\ n[1] \in Letters \cup {"_"}
    /\ \A i \in 1..Len(n) : n[i] \in Letters \cup Digits \cup {"_"}

\* path-style: starts with "/", characters in [A-Za-z0-9/_.-], length at
\* most 2048
MatchesPathRule(id) ==
    /\ id # <<>>
    /\ id[1] = "/"
    /\ \A i \in 1..Len(id) : id[i] \in Letters \cup Digits \cup {"/", "_", ".", "-"}
    /\ Len(id) <= 2048

\* name-style: 1 to 127 characters in [A-Za-z0-9-]
MatchesSecretRule(id) ==
    /\ Len(id) \in 1..127
    /\ \A i \in 1..Len(id) : id[i] \in Letters \cup Digits \cup {"-"}

\* the identifier holds ".."
HasTraversal(id) ==
    \E i \in 1..(Len(id) - 1) : id[i] = "." /\ id[i + 1] = "."

\* the loader has decided on a mapping file read from a valid path
MapDecided ==
    mode = "load" /\ pc \in {"loaded", "rejected"} /\ filename = <<"m">>

\* C22 as stated: the mapping is accepted exactly when it is not empty,
\* every name matches ^[A-Za-z_][A-Za-z0-9_]*$ and every identifier matches
\* the rule of the store selected (path-style or name-style).
C22_ValidationIff ==
    MapDecided =>
        (pc = "loaded" <=>
            /\ DOMAIN paramMap # {}
            /\ \A n \in DOMAIN paramMap :
                  /\ MatchesNameRule(n)
                  /\ IF azure THEN MatchesSecretRule(paramMap[n])
                     ELSE MatchesPathRule(paramMap[n]))

\* C22 amended: as stated, and a path-style identifier must also hold no
\* "..".
C22_ValidationIffNoTraversal ==
    MapDecided =>
        (pc = "loaded" <=>
            /\ DOMAIN paramMap # {}
            /\ \A n \in DOMAIN paramMap :
                  /\ MatchesNameRule(n)
                  /\ IF azure THEN MatchesSecretRule(paramMap[n])
                     ELSE /\ MatchesPathRule(paramMap[n])
                          /\ ~HasTraversal(paramMap[n]))

\* the path of 2048 characters is accepted
C22_Witness ==
    /\ MapDecided
    /\ ~azure
    /\ paramMap = (<<"Z", "z", "0">> :> LongPath(2048))
    /\ pc = "loaded"

\* the file path is empty, or holds ".." or a null byte
BadFilePath(path) ==
    \/ path = <<>>
    \/ HasTraversal(path)
    \/ \E i \in 1..Len(path) : path[i] = NUL

\* C23: a mapping for the path-style store with an identifier that holds
\* ".." is never loaded, whatever its other entries; a file path that is
\* empty or holds ".." or a null byte is rejected, both as the mapping file
\* and as the .env file.
C23_TraversalRejected ==
    mode = "load" =>
        /\ (/\ pc \in {"loaded", "rejected"}
            /\ ~azure
            /\ \E n \in DOMAIN paramMap : HasTraversal(paramMap[n])) =>
               (pc = "rejected" /\ out = <<[t |-> "maperror"]>>)
        /\ (pc \in {"loaded", "checked", "rejected"} /\ BadFilePath(filename)) =>
               (pc = "rejected" /\ out = <<[t |-> "patherror"]>>)
        /\ \A id \in {paramMap[n] : n \in DOMAIN paramMap} :
               HasTraversal(id) => ~validateSSMPath(id)

\* a mapping with a valid entry and an entry whose path holds ".." was
\* rejected
C23_Witness ==
    /\ mode = "load"
    /\ pc = "rejected"
    /\ ~azure
    /\ paramMap = (KA :> PathA) @@ (KB :> <<"/", "a", "/", ".", ".", "/", "b">>)
    /\ out = <<[t |-> "maperror"]>>

\* the texts a printed message shows
ShownTexts(m) ==
    CASE m.t = "diff" -> {m.key, m.local, m.remote, m.path}
      [] m.t \in {"fetcherror", "pusherror"} -> {m.key, m.cause}
      [] m.t = "warning" -> {m.key}
      [] m.t = "pushedone" -> {m.key, m.id}
      [] OTHER -> {}

\* the values of the variables, local and remote, that are not empty
SecretValues ==
    ({local0[k] : k \in DOMAIN local0}
     \cup {store[id].val : id \in {j \in DOMAIN store : store[j].kind = "found"}}
     \cup {single.value}) \ {<<>>}

Stripped(s) ==
    LET inner == {i \in 1..Len(s) : s[i] \notin {SP, TAB, CR, LF, FF}}
    IN  IF inner = {} THEN <<>>
        ELSE SubSeq(s, CHOOSE a \in inner : \A b \in inner : a <= b,
                       CHOOSE a \in inner : \A b \in inner : b <= a)

\* the escape sequences and what each stands for, in the order of the claim
EscapePairs ==
    <<[from |-> <<BS, BS>>, to |-> <<BS>>], [from |-> <<BS, DQ>>, to |-> <<DQ>>],
      [from |-> <<BS, "n">>, to |-> <<LF>>], [from |-> <<BS, "r">>, to |-> <<CR>>],
      [from |-> <<BS, "t">>, to |-> <<TAB>>]>>

\* v with the escape sequences from the i-th on replaced, one after another
RECURSIVE UnescapedFrom(_, _)
UnescapedFrom(v, i) ==
    IF i > Len(EscapePairs) THEN v
    ELSE UnescapedFrom(ReplaceAll(v, EscapePairs[i].from, EscapePairs[i].to),
                       i + 1)

\* the value a line gives: unquoted and unescaped when wrapped in one pair
\* of matching quotes, literal otherwise
ValueOfLine(l) ==
    LET v == Stripped(SubSeq(l, IndexOf(l, EQ) + 1, Len(l)))
    IN  IF Len(v) >= 2 /\ v[1] = v[Len(v)] /\ v[1] \in {DQ, SQ}
        THEN UnescapedFrom(SubSeq(v, 2, Len(v) - 1), 1)
        ELSE v

\* the key a line gives
NameOfLine(l) == Stripped(SubSeq(l, 1, IndexOf(l, EQ) - 1))

\* the snapshot the rules of the claim give for a text with no malformed
\* line: blank and comment lines skipped, the last line of a key decides
SnapshotOfText(text) ==
    LET ls == Split(text, LF)
        E == {i \in 1..Len(ls) :
                 Stripped(ls[i]) # <<>> /\ Stripped(ls[i])[1] # HASH}
        lastOf(k) == CHOOSE i \in E :
                        /\ NameOfLine(ls[i]) = k
                        /\ \A j \in E : NameOfLine(ls[j]) = k => j <= i
    IN  [k \in {NameOfLine(ls[i]) : i \in E} |-> ValueOfLine(ls[lastOf(k)])]

\* C25: parsing skips blank lines and lines whose first non-space character
\* is "#", trims key and value, strips one pair of matching double or single
\* quotes around the trimmed value and then unescapes \\, \", \n, \r, \t in
\* that order, takes an unquoted value literally, gives KEY= the empty
\* value, and lets a later line of a key replace an earlier one.
C25_ParseRules ==
    (ParsedText /\ ~parsed.err) => parsed.envVars = SnapshotOfText(file)

\* a comment, A=1, then " A = 2 ": A is 2
C25_Witness ==
    /\ ParsedText
    /\ file = <<HASH, SP, "x", LF, "A", EQ, "1", LF, SP, "A", SP, EQ, SP, "2", SP>>
    /\ parsed = [err |-> FALSE, line |-> 0, envVars |-> (KA :> <<"2">>)]

\* a sync run that followed a successful one has ended
SecondSyncDone == mode = "sync" /\ force /\ pass >= 1 /\ pc = "done"

\* the value comes back from the file as it is: it holds no backslash
\* immediately followed by n, r or t and, where it is written without
\* quotes, no white space at its ends
SurvivesFile(v) ==
    /\ NoBackslashLetter(v)
    /\ (~quotes /\ ~HasSpecial(v)) => Stripped(v) = v

\* C26 as stated: a sync under --force that follows a successful sync
\* under --force against the same store finds no difference, for every
\* remote value and both settings of --quotes.
C26_SyncConverges ==
    SecondSyncDone =>
        /\ exitCode = 0
        /\ differences = <<>>
        /\ out[Len(out)] = [t |-> "insync"]

\* C26 amended: it finds no difference when no remote value holds a
\* backslash immediately followed by n, r or t or is written without quotes
\* with white space at its ends.
C26_SyncConvergesAmended ==
    (/\ SecondSyncDone
     /\ \A k \in DOMAIN paramMap :
           store[paramMap[k]].kind = "found" =>
               SurvivesFile(store[paramMap[k]].val)) =>
        /\ exitCode = 0
        /\ differences = <<>>
        /\ out[Len(out)] = [t |-> "insync"]

\* the remote value backslash, double quote was written and read back: the
\* second run is in sync
C26_Witness ==
    /\ SecondSyncDone
    /\ ~quotes
    /\ store[PathA] = Found(<<BS, DQ>>)
    /\ store[PathB] = Found(<<"2">>)
    /\ file = <<"A", EQ, DQ, BS, BS, BS, DQ, DQ, LF, "B", EQ, "2", LF>>
    /\ differences = <<>>
    /\ exitCode = 0

\* an interactive sync has ended with differences and an empty decision set
NothingSelected ==
    /\ mode = "sync"
    /\ ~force
    /\ pc = "done"
    /\ differences # <<>>
    /\ toUpdate = <<>>

C27_Unwritten ==
    NothingSelected =>
        /\ writes = 0
        /\ file = file0
        /\ exitCode = 0
        /\ out[Len(out)] = [t |-> "none"]

C27_Step ==
    (mode = "sync" /\ ~force /\ ~(pc' = "done" /\ toUpdate' # <<>>)) =>
        /\ file' = file
        /\ fileInfo' = fileInfo
        /\ writes' = writes

\* C27: when an interactive sync with differences ends with an empty
\* decision set (every difference answered no, or cancel before any yes),
\* no step of the run has written the file: its text and its permission
\* bits are those of the start, and the run reports that nothing was
\* selected.
C27_NoSelectionNoWrite == []C27_Unwritten /\ [][C27_Step]_vars

\* two differences, both answered no, the file with its bits 0644 as before
C27_Witness ==
    /\ NothingSelected
    /\ Len(differences) = 2
    /\ idx = 2
    /\ response \in NoWords
    /\ fileInfo = FileWith(420)
    /\ file = file0

\* C28: the interactive selection returns on every input stream, also on
\* one that reaches end-of-input before every difference is decided: every
\* run of sync ends.
C28_SelectionTerminates == <>(pc = "done")

\* the step of a bulk push in which every store call succeeds
PushSucceeds ==
    /\ BulkPush
    /\ pc = "start"
    /\ pc' = "done"
    /\ exitCode' = 0

\* C29: a bulk push in which every store call succeeds leaves the store
\* with the content that every other order of visiting the mapping entries
\* gives from the same store, mapping and local snapshot, also when two
\* names are mapped to one identifier.
C29_PushOrderIndependent ==
    [][PushSucceeds =>
          \A order \in RangeOrders(paramMap) :
              pushParameters(local0', paramMap, store, putFails, azure,
                             order).store = store']_vars

\* C30: the count a successful bulk push reports is the number of store
\* calls it made, also when the .env file holds names outside the mapping
\* or the mapping holds names the file lacks.
C30_PushCountIsCalls ==
    (BulkPush /\ pc = "done" /\ exitCode = 0) =>
        out[Len(out)] = [t |-> "pushed", n |-> Len(calls)]

====
